---- MODULE Spec2Model ----
(***************************************************************************)
(* Model of the SMOL benchmark harness (bench/runner.py, bench/workloads,   *)
(* bench/lib): the runner's suite loop, the workload lifecycle driven by    *)
(* WorkloadBase.run, and the database objects the workloads create.         *)
(***************************************************************************)
EXTENDS Integers, Sequences, FiniteSets, TLC

VARIABLES
    mode,               \* BenchmarkRunner.mode: "quick" or "full"
    shared_buffers_mb,  \* PostgresEnvironment.shared_buffers_mb, read at construction
    max_workers,        \* PostgresEnvironment.max_workers, read at construction
    dbExecTime,         \* "Execution Time" the server reports for a measured run (ms)
    dbIndexMB,          \* size the server reports for an index, per engine (MB)
    has_buffercache,    \* CacheController.has_buffercache, probed at construction
    faults,             \* database calls that have failed so far in this run
    rpc,                \* position of BenchmarkRunner.run / main
    idx,                \* 1-based position of the runner's loop in its workload list
    results,            \* BenchmarkRunner.results
    outcome,            \* per started workload: "ok" (run returned) or "raised"
    reports,            \* "none", "skipped" (no results) or "written"
    regression,         \* "none" or "checked"
    wpc,                \* position inside WorkloadBase.run of the current workload
    eng,                \* index into Engines of run()'s engine loop
    queries,            \* the list get_queries() returned for the current engine
    qi,                 \* index into queries of run()'s query loop
    mi,                 \* index into cache_modes of run()'s cache-mode loop
    index_size,         \* run()'s local index_size
    wresults,           \* run()'s local results list
    log,                \* calls the current workload's run() has made, in order
    tables,             \* tables that exist in the database
    indexes,            \* indexes that exist in the database
    extensions,         \* extensions installed in the database
    explain_output,     \* what psql prints for the EXPLAIN of execute_with_stats
    wall_ms,            \* what execute_timed measures in the fallback (ms)
    stats_return,       \* <<>> or <<what execute_with_stats ended with>>
    flush_name,         \* the relation of the flush_relation call that is examined
    flush_mode,         \* its mode
    sent,               \* the statements the call has sent, in order
    flush_return,       \* "" (not called), "returned", or the exception it raised
    warnings,           \* warnings the call has logged
    baseline_file,      \* the file at RegressionDetector.baseline_path
    baseline,           \* RegressionDetector.baseline
    current_results,    \* the results handed to check and to update_baseline
    dpc,                \* "new", "ready" (constructed) or the exception __init__ raised
    upc,                \* position of update_baseline: "idle", "open", "done", "failed"
    check_return,       \* <<>> or <<what check ended with>>
    report_results,     \* ReportGenerator.results
    markdown_return,    \* <<>> or <<what generate_markdown ended with>>
    tree_return,        \* <<>> or <<what generate_decision_tree ended with>>
    latency_samples,    \* the latency samples handed to calculate_percentiles
    percentiles_return, \* <<>> or <<what calculate_percentiles returned>>
    scale_calls,        \* the calls of get_test_scale and get_scale_params, with what they returned
    exec_pos,           \* the number of execute() calls execute_query has made
    sessions            \* the client processes of these calls, with the settings each ran under

\* the state of a suite run
suiteVars == <<mode, shared_buffers_mb, max_workers, dbExecTime, dbIndexMB,
               has_buffercache, faults,
               rpc, idx, results, outcome, reports, regression,
               wpc, eng, queries, qi, mi, index_size, wresults, log,
               tables, indexes, extensions>>

\* the state of the calls of bench/lib that are examined on their own
statsVars == <<explain_output, wall_ms, stats_return>>

cacheVars == <<flush_name, flush_mode, sent, flush_return, warnings>>

detectorVars == <<baseline_file, baseline, current_results, dpc, upc, check_return>>

reportVars == <<report_results, markdown_return, tree_return>>

metricsVars == <<latency_samples, percentiles_return>>

scaleVars == <<scale_calls>>

sessionVars == <<exec_pos, sessions>>

libVars == <<statsVars, cacheVars, detectorVars, reportVars, metricsVars, scaleVars,
            sessionVars>>

vars == <<suiteVars, libVars>>

----------------------------------------------------------------------------
(* Bounds of the model *)

\* database calls that may fail in one run of the suite
MaxFaults == 1

----------------------------------------------------------------------------
(* Strings.  A string that the code edits character by character is a       *)
(* sequence of pieces; "-" and "." are always pieces of their own.          *)

RECURSIVE Join(_)
Join(s) == IF s = <<>> THEN "" ELSE Head(s) \o Join(Tail(s))

\* str.replace(old, new) for a one-character old
StrReplace(s, old, new) == [i \in DOMAIN s |-> IF s[i] = old THEN new ELSE s[i]]

\* str.replace(old, "")
StrRemove(s, old) == SelectSeq(s, LAMBDA c : c # old)

\* s[:n]
StrTake(s, n) == SubSeq(s, 1, IF Len(s) < n THEN Len(s) ELSE n)

Min(a, b) == IF a < b THEN a ELSE b

----------------------------------------------------------------------------
(* Environment probe *)

\* a tier function whose lower tiers include their upper limits
get_test_scale_Inclusive(mb) ==
    IF mb <= 256 THEN "micro"
    ELSE IF mb <= 2048 THEN "standard"
    ELSE "large"

get_test_scale(mb) ==
    IF mb < 256 THEN "micro"
    ELSE IF mb < 2048 THEN "standard"
    ELSE "large"

scale_configs ==
    [micro    |-> [rows |-> <<100000, 500000>>,
                   cache_modes |-> <<"hot">>,
                   timeout_minutes |-> 3],
     standard |-> [rows |-> <<1000000, 5000000>>,
                   cache_modes |-> <<"hot", "cold">>,
                   timeout_minutes |-> 15],
     large    |-> [rows |-> <<5000000, 20000000, 50000000>>,
                   cache_modes |-> <<"hot", "warm", "cold">>,
                   timeout_minutes |-> 45]]

get_scale_params(mb) == scale_configs[get_test_scale(mb)]

----------------------------------------------------------------------------
(* Workload configurations.  A field the caller does not pass holds the     *)
(* default the workload's config.get(...) falls back to.                    *)

Config(cls, rows, cache_modes, parallelism) ==
    [cls |-> cls, rows |-> rows, cache_modes |-> cache_modes,
     parallelism |-> parallelism,
     metrics |-> 50, key_type |-> "uuid", collation |-> <<"C">>,
     selectivity |-> 100,   \* in thousandths: config.get('selectivity', 0.1)
     n_includes |-> 2, data_type |-> "int2", distinct_users |-> 1000]

en_US_x_icu == <<"e", "n", "-", "U", "S", "-", "x", "-", "i", "c", "u">>

QuickWorkloads(workers) ==
    LET rows == 1000000
        W(cls) == Config(cls, rows, <<"hot">>, 0)
    IN <<
        [Config("TimeSeries", rows, <<"hot", "cold">>, 0) EXCEPT !.metrics = 50],
        [W("TextKeys") EXCEPT !.key_type = "uuid"],
        [W("TextKeys") EXCEPT !.key_type = "text_utf8", !.collation = en_US_x_icu],
        W("Composite"),
        [W("SelectivityRange") EXCEPT !.selectivity = 1],
        [W("SelectivityRange") EXCEPT !.selectivity = 100],
        Config("ParallelScaling", rows, <<"hot">>, workers),
        [W("IncludeOverhead") EXCEPT !.n_includes = 0],
        [W("IncludeOverhead") EXCEPT !.n_includes = 4],
        [W("TimeSeries") EXCEPT !.metrics = 10],
        W("BackwardScan"),
        W("Limit"),
        W("InClause"),
        [W("DataTypes") EXCEPT !.data_type = "int2"],
        [W("DataTypes") EXCEPT !.data_type = "int8"],
        [W("DataTypes") EXCEPT !.data_type = "date"],
        W("IndexOnlyScan"),
        W("PartialIndex")
    >>

FullWorkloadsFor(rows, cache_modes) ==
    <<
        [Config("TimeSeries", rows, cache_modes, 0) EXCEPT !.metrics = 50],
        Config("Dimension", Min(100000, rows), cache_modes, 0),
        [Config("EventStream", rows, cache_modes, 0)
            EXCEPT !.distinct_users = rows \div 100],
        Config("Sparse", rows, cache_modes, 0),
        Config("Composite", rows, cache_modes, 0)
    >>

RECURSIVE FullWorkloads(_, _)
FullWorkloads(rowsList, cache_modes) ==
    IF rowsList = <<>> THEN <<>>
    ELSE FullWorkloadsFor(Head(rowsList), cache_modes)
         \o FullWorkloads(Tail(rowsList), cache_modes)

get_workloads(m, mb, maxw) ==
    LET scale_params == get_scale_params(mb)
    IN IF m = "quick" THEN QuickWorkloads(Min(4, maxw))
       ELSE IF m = "full"
            THEN FullWorkloads(scale_params.rows, scale_params.cache_modes)
            ELSE <<>>

----------------------------------------------------------------------------
(* Workload identifiers, as sequences of pieces *)

K(rows) == ToString(rows \div 1000)

\* f"{selectivity*100:.1f}" for a selectivity given in thousandths
Pct(sel) == <<ToString(sel \div 10), ".", ToString(sel % 10)>>

WorkloadIdPieces(c) ==
    CASE c.cls = "TimeSeries" ->
            LET card == IF c.metrics < 100 THEN "ultra_low"
                        ELSE IF c.metrics < 500 THEN "low" ELSE "med"
            IN <<"timeseries_", K(c.rows), "k_", card, "_card">>
      [] c.cls = "Dimension" -> <<"dimension_", K(c.rows), "k">>
      [] c.cls = "EventStream" ->
            <<"events_", K(c.rows), "k_", ToString(c.distinct_users), "_users">>
      [] c.cls = "Sparse" -> <<"sparse_", K(c.rows), "k">>
      [] c.cls = "Composite" -> <<"composite_", K(c.rows), "k">>
      [] c.cls = "TextKeys" ->
            LET coll_suffix ==
                    IF c.collation = <<"C">> THEN <<>>
                    ELSE <<"_">> \o StrTake(StrRemove(StrRemove(c.collation, "-"), "."), 6)
            IN <<"textkeys_", c.key_type>> \o coll_suffix \o <<"_", K(c.rows), "k">>
      [] c.cls = "SelectivityRange" ->
            <<"selectivity_">> \o Pct(c.selectivity) \o <<"pct_", K(c.rows), "k">>
      [] c.cls = "ParallelScaling" ->
            <<"parallel_", ToString(c.parallelism), "w_", K(c.rows), "k">>
      [] c.cls = "IncludeOverhead" ->
            <<"include_", ToString(c.n_includes), "cols_", K(c.rows), "k">>
      [] c.cls = "BackwardScan" -> <<"backward_", K(c.rows), "k">>
      [] c.cls = "Limit" -> <<"limit_", K(c.rows), "k">>
      [] c.cls = "InClause" -> <<"in_clause_", K(c.rows), "k">>
      [] c.cls = "DataTypes" -> <<"dtype_", c.data_type, "_", K(c.rows), "k">>
      [] c.cls = "IndexOnlyScan" -> <<"ios_", K(c.rows), "k">>
      [] c.cls = "PartialIndex" -> <<"partial_", K(c.rows), "k">>

get_workload_id(c) == Join(WorkloadIdPieces(c))

\* WorkloadBase.__init__: self.table_name
table_name(c) ==
    "bench_" \o Join(StrReplace(StrReplace(WorkloadIdPieces(c), "-", "_"), ".", "_"))

\* the classes that define get_table_name()
HasGetTableName(c) ==
    c.cls \in {"BackwardScan", "Limit", "InClause", "DataTypes",
               "IndexOnlyScan", "PartialIndex"}

get_table_name(c) ==
    CASE c.cls = "BackwardScan" -> "bwd_test"
      [] c.cls = "Limit" -> "limit_test"
      [] c.cls = "InClause" -> "in_test"
      [] c.cls = "DataTypes" -> "dtype_test"
      [] c.cls = "IndexOnlyScan" -> "ios_test"
      [] c.cls = "PartialIndex" -> "partial_test"

get_actual_table_name(c) ==
    IF HasGetTableName(c) THEN get_table_name(c) ELSE table_name(c)

\* idx_name = f"idx_{table}_{engine}"
idx_name(c, engine) == "idx_" \o get_actual_table_name(c) \o "_" \o engine

----------------------------------------------------------------------------
(* Queries.  Query is a dataclass whose repeat field defaults to 1; the      *)
(* argument is <<>> when the workload does not pass repeat.  `given` only    *)
(* remembers whether it was passed and is not a field of the dataclass.      *)

Query(id, repeatArg) ==
    [id |-> id,
     repeat |-> IF repeatArg = <<>> THEN 1 ELSE repeatArg[1],
     given |-> repeatArg # <<>>]

\* the values random.randint(1, self.config['rows']) can return where
\* get_queries calls it: the two ends of the range are modelled
RandomIds(c) == IF c.cls = "Dimension" THEN {1, c.rows} ELSE {0}

\* get_queries() when random.randint returns random_id.  The SQL text of a
\* query follows from the configuration and the query id, except for the
\* point lookup of DimensionWorkload, which holds random_id.
get_queries(c, random_id) ==
    CASE c.cls = "TimeSeries" ->
            <<Query("hot_metric", <<>>), Query("metric_range", <<>>)>>
      [] c.cls = "Dimension" ->
            <<[id |-> "point_lookup", repeat |-> 10, given |-> TRUE,
               random_id |-> random_id],
              Query("range_scan", <<>>)>>
      [] c.cls = "EventStream" ->
            <<Query("hot_user", <<>>), Query("user_range", <<>>)>>
      [] c.cls = "Sparse" ->
            <<Query("pending_orders", <<>>), Query("all_active", <<>>)>>
      [] c.cls = "Composite" ->
            <<Query("recent_orders", <<>>), Query("single_day", <<>>)>>
      [] c.cls = "TextKeys" ->
            <<Query("equality", <<>>), Query("range", <<>>)>>
      [] c.cls = "SelectivityRange" ->
            <<Query(Join(<<"sel_">> \o Pct(c.selectivity) \o <<"pct">>), <<>>)>>
      [] c.cls = "ParallelScaling" ->
            <<Query("full_scan_" \o ToString(c.parallelism) \o "w", <<>>)>>
      [] c.cls = "IncludeOverhead" ->
            <<Query("scan_" \o ToString(c.n_includes) \o "inc", <<>>)>>
      [] c.cls = "BackwardScan" ->
            <<Query("desc_limit100", <<5>>), Query("desc_limit10k", <<5>>),
              Query("desc_range", <<5>>)>>
      [] c.cls = "Limit" ->
            <<Query("limit10", <<5>>), Query("limit1000", <<5>>),
              Query("range_limit100", <<5>>)>>
      [] c.cls = "InClause" ->
            <<Query("in_5", <<5>>), Query("in_50", <<5>>), Query("in_500", <<5>>)>>
      [] c.cls = "DataTypes" ->
            IF c.data_type = "date"
            THEN <<Query("range_1month", <<5>>), Query("recent", <<5>>)>>
            ELSE <<Query("range_1pct", <<5>>), Query("point", <<5>>)>>
      [] c.cls = "IndexOnlyScan" ->
            <<Query("ios_range", <<5>>), Query("ios_small", <<5>>)>>
      [] c.cls = "PartialIndex" ->
            <<Query("active_category", <<5>>), Query("active_range", <<5>>)>>

----------------------------------------------------------------------------
(* Metrics *)

RECURSIVE Insert(_, _)
Insert(x, s) ==
    IF s = <<>> THEN <<x>>
    ELSE IF x <= Head(s) THEN <<x>> \o s
    ELSE <<Head(s)>> \o Insert(x, Tail(s))

RECURSIVE sorted(_)
sorted(s) == IF s = <<>> THEN <<>> ELSE Insert(Head(s), sorted(Tail(s)))

RECURSIVE sum(_)
sum(s) == IF s = <<>> THEN 0 ELSE Head(s) + sum(Tail(s))

\* Python indexes from 0; int(n * q) for q = pct/100
At(s, n, pct) == s[((n * pct) \div 100) + 1]

\* avg is the fraction <<sum, n>>
calculate_percentiles(values) ==
    IF values = <<>>
    THEN [p50 |-> 0, p95 |-> 0, p99 |-> 0, avg |-> <<0, 1>>, min |-> 0, max |-> 0]
    ELSE LET sorted_vals == sorted(values)
             n == Len(sorted_vals)
         IN [p50 |-> At(sorted_vals, n, 50),
             p95 |-> IF n > 1 THEN At(sorted_vals, n, 95) ELSE sorted_vals[n],
             p99 |-> IF n > 2 THEN At(sorted_vals, n, 99) ELSE sorted_vals[n],
             avg |-> <<sum(values), n>>,
             min |-> sorted_vals[1],
             max |-> sorted_vals[n]]

----------------------------------------------------------------------------
(* WorkloadBase.execute_query *)

\* an engine loop that starts with smol
Engines_SmolFirst == <<"smol", "btree">>

Engines == <<"btree", "smol">>

\* the number of measured runs
Repeat(query, cache_mode) ==
    IF cache_mode = "cold" THEN 1
    ELSE IF query.repeat # 0 THEN query.repeat ELSE 5

Warmup(cache_mode) == cache_mode # "cold"

\* a call run() makes; fault: the exception the call ended with, "" if none
Ev(ev, engine, query_id, cache_mode) ==
    [ev |-> ev, engine |-> engine, query_id |-> query_id, cache_mode |-> cache_mode,
     fault |-> ""]

\* A statement flush_relation sends: try is 0 outside a try block, 1 and 2 in
\* the first and the second try block, whose bare except clause swallows
\* whatever the statement raises.
Stmt(sql, try) == [sql |-> sql, try |-> try]

\* a flush that touches the relation in warm mode as well
flush_relation_TouchesWhenWarm(cache_mode, buffercache) ==
    IF cache_mode = "hot" THEN <<>>
    ELSE <<Stmt("CHECKPOINT", 0), Stmt("DISCARD PLANS", 0)>>
         \o (IF cache_mode = "cold" /\ buffercache
             THEN <<Stmt("pg_buffercache_evict_relation", 1)>> ELSE <<>>)
         \o <<Stmt("count", 2), Stmt("CHECKPOINT", 2)>>

\* CacheController.flush_relation(relation, mode): the statements it sends
flush_relation(cache_mode, buffercache) ==
    IF cache_mode = "hot" THEN <<>>
    ELSE <<Stmt("CHECKPOINT", 0), Stmt("DISCARD PLANS", 0)>>
         \o (IF cache_mode = "cold"
             THEN (IF buffercache
                   THEN <<Stmt("pg_buffercache_evict_relation", 1)>> ELSE <<>>)
                  \o <<Stmt("count", 2), Stmt("CHECKPOINT", 2)>>
             ELSE <<>>)

\* a call of execute_query: the event and the try block it is made in
Call(e, try) == [e |-> e, try |-> try]

\* the calls execute_query makes, in order, up to the construction of the
\* result: flush_relation is the call of the method, followed by the
\* statements the method sends
QueryCalls(query, engine, cache_mode, buffercache) ==
    LET E(ev) == Call(Ev(ev, engine, query.id, cache_mode), 0)
        stmts == flush_relation(cache_mode, buffercache)
        flush == <<E("flush_relation")>>
                 \o [i \in DOMAIN stmts |->
                        Call(Ev(stmts[i].sql, engine, query.id, cache_mode), stmts[i].try)]
    IN <<E("set"), E("set"), E("set"), E("set")>>
       \o (IF Warmup(cache_mode) THEN flush \o <<E("warmup")>> ELSE <<>>)
       \o (IF cache_mode = "cold" THEN flush ELSE <<>>)
       \o [i \in 1..Repeat(query, cache_mode) |-> E("measured")]

\* a call reaches the database, and so can fail, unless it is the entry into
\* flush_relation
CanFail(c) == c.e.ev # "flush_relation"

\* What a database call can end with instead of returning: an Exception
\* (RuntimeError of a non-zero exit, subprocess.TimeoutExpired of the 300 s
\* limit; no handler tells the two apart) or a KeyboardInterrupt.
FaultKinds == {"Exception", "KeyboardInterrupt"}

Failed(e, kind) == [e EXCEPT !.fault = kind]

\* the positions of calls that are inside a try block
Guarded(calls) == {i \in DOMAIN calls : calls[i].try # 0}

\* call i is not made when an earlier call of its try block has failed
Skipped(calls, absorbed, i) ==
    \E j \in absorbed : j < i /\ calls[j].try = calls[i].try

\* the events of calls 1..n when the guarded calls in DOMAIN ak fail with ak
Made(calls, n, ak) ==
    LET marked == [i \in 1..n |->
                    [i |-> i,
                     e |-> IF i \in DOMAIN ak
                           THEN Failed(calls[i].e, ak[i]) ELSE calls[i].e]]
        kept == SelectSeq(marked, LAMBDA x : ~Skipped(calls, DOMAIN ak, x.i))
    IN [j \in DOMAIN kept |-> kept[j].e]

Result(c, query, engine, cache_mode, size, time) ==
    LET timings == [i \in 1..Repeat(query, cache_mode) |-> time]
        perc == calculate_percentiles(timings)
    IN [workload_id |-> get_workload_id(c),
        engine |-> engine,
        query_id |-> query.id,
        cache_mode |-> cache_mode,
        latency_p50_ms |-> perc.p50,
        latency_avg_ms |-> perc.avg,
        index_size_mb |-> size]

----------------------------------------------------------------------------
(* Reports *)

\* generate_decision_tree divides 1 by the speedup on its "USE BTREE" branch.
\* b, s: p50 latencies of btree and smol; bs, ss: their index sizes.
TreeDividesByZero(b, s, bs, ss) ==
    LET speedupIsZero == (s <= 0) \/ (b = 0)
        speedupOver15 == s > 0 /\ 2 * b > 3 * s
        speedupOver12 == s > 0 /\ 5 * b > 6 * s
        speedupUnder09 == s <= 0 \/ 10 * b < 9 * s
        compressionOver2 == ss > 0 /\ bs > 2 * ss
        compressionOver3 == ss > 0 /\ bs > 3 * ss
    IN /\ ~(speedupOver15 /\ compressionOver2)
       /\ ~speedupOver12
       /\ ~compressionOver3
       /\ speedupUnder09
       /\ speedupIsZero

First(rs, wid, engine) ==
    LET hits == SelectSeq(rs, LAMBDA r : r.workload_id = wid /\ r.engine = engine)
    IN IF hits = <<>> THEN <<>> ELSE <<hits[1]>>

generate_decision_tree_raises(rs) ==
    \E i \in DOMAIN rs :
        LET wid == rs[i].workload_id
            btree == First(rs, wid, "btree")
            smol == First(rs, wid, "smol")
        IN /\ btree # <<>>
           /\ smol # <<>>
           /\ TreeDividesByZero(btree[1].latency_p50_ms, smol[1].latency_p50_ms,
                                btree[1].index_size_mb, smol[1].index_size_mb)

----------------------------------------------------------------------------
(* The database: the tables and indexes that exist *)

Index(name, table, engine) == [name |-> name, table |-> table, engine |-> engine]

\* DROP TABLE IF EXISTS table CASCADE
DropTable(db, table) ==
    [tables |-> db.tables \ {table},
     indexes |-> {i \in db.indexes : i.table # table}]

\* the classes whose CREATE TABLE declares a PRIMARY KEY
HasPrimaryKey(c) == c.cls \in {"BackwardScan", "Limit", "DataTypes"}

CreateTable(db, c, table) ==
    [tables |-> db.tables \cup {table},
     indexes |-> IF HasPrimaryKey(c)
                 THEN db.indexes \cup {Index(table \o "_pkey", table, "btree")}
                 ELSE db.indexes]

\* the db.execute calls of generate_data, in order
GenStmts(c) ==
    IF HasGetTableName(c)
    THEN IF c.cls = "IndexOnlyScan"
         THEN <<"drop", "create", "insert", "vacuum">>
         ELSE <<"drop", "create", "insert">>
    ELSE <<"script">>

\* generate_data writes self.table_name or the table it names literally
GenTable(c) == IF HasGetTableName(c) THEN get_table_name(c) ELSE table_name(c)

ApplyGenStmt(db, c, stmt) ==
    CASE stmt = "drop" -> DropTable(db, GenTable(c))
      [] stmt = "create" -> CreateTable(db, c, GenTable(c))
      [] stmt = "script" -> CreateTable(DropTable(db, GenTable(c)), c, GenTable(c))
      [] OTHER -> db

RECURSIVE ApplyGenStmts(_, _, _)
ApplyGenStmts(db, c, stmts) ==
    IF stmts = <<>> THEN db
    ELSE ApplyGenStmts(ApplyGenStmt(db, c, Head(stmts)), c, Tail(stmts))

\* DROP INDEX IF EXISTS idx_name
DropIndex(db, name) ==
    [tables |-> db.tables, indexes |-> {i \in db.indexes : i.name # name}]

\* a CREATE INDEX that replaces the indexes the table has
CreateIndex_Replacing(db, c, engine) ==
    [tables |-> db.tables,
     indexes |-> {i \in db.indexes : i.table # get_actual_table_name(c)}
                 \cup {Index(idx_name(c, engine), get_actual_table_name(c), engine)}]

\* CREATE INDEX idx_name ON table USING engine(...)
CreateIndex(db, c, engine) ==
    [tables |-> db.tables,
     indexes |-> db.indexes
                 \cup {Index(idx_name(c, engine), get_actual_table_name(c), engine)}]

----------------------------------------------------------------------------
(* State *)

\* The runs that are modelled, <<mode, shared_buffers_mb, max_workers>>:
\* quick mode never reads the scale parameters, so it is run at one cache
\* size; full mode is run in each scale tier.
QuickRuns == {<<"quick", 128, 2>>}

FullRuns == {<<"full", 128, 2>>, <<"full", 256, 2>>, <<"full", 2048, 2>>}

Environments == QuickRuns \cup FullRuns

\* What the server reports in a run: the execution time of every measured
\* run (ms), the size of an index of each engine (MB), and whether the
\* pg_buffercache extension is installed.  The server that reports an
\* execution time of 0 is modelled in the smallest tier only, the server
\* without pg_buffercache in the middle tier.
Measurements(e) ==
    {[time |-> 1, btree |-> 4, smol |-> 1, buffercache |-> e # <<"full", 256, 2>>]}
    \cup (IF e = <<"full", 128, 2>>
          THEN {[time |-> 0, btree |-> 2, smol |-> 2, buffercache |-> TRUE]} ELSE {})

\* get_workloads() of each modelled run, evaluated once
WorkloadTable == [e \in Environments |-> get_workloads(e[1], e[2], e[3])]

Workloads == WorkloadTable[<<mode, shared_buffers_mb, max_workers>>]

cur == Workloads[idx]

DB == [tables |-> tables, indexes |-> indexes]

\* failures of database calls are limited to MaxFaults in one run
MayFail == faults < MaxFaults

\* the environment BenchmarkRunner.__init__ finds
Environment(runs) ==
    \E e \in runs : \E m \in Measurements(e) :
        /\ mode = e[1] /\ shared_buffers_mb = e[2] /\ max_workers = e[3]
        /\ dbExecTime = m.time /\ dbIndexMB = [btree |-> m.btree, smol |-> m.smol]
        /\ has_buffercache = m.buffercache

\* the suite before BenchmarkRunner.run
SuiteStart ==
    /\ faults = 0
    /\ rpc = "start"
    /\ idx = 1
    /\ results = <<>>
    /\ outcome = <<>>
    /\ reports = "none"
    /\ regression = "none"
    /\ wpc = "gen"
    /\ eng = 1
    /\ queries = <<>>
    /\ qi = 1
    /\ mi = 1
    /\ index_size = 0
    /\ wresults = <<>>
    /\ log = <<>>
    /\ tables = {}
    /\ indexes = {}
    /\ extensions = {}

\* no call of execute_with_stats is under examination
StatsIdle ==
    /\ explain_output = <<>>
    /\ wall_ms = 0
    /\ stats_return = <<>>

\* no call of flush_relation is under examination
CacheIdle ==
    /\ flush_name = ""
    /\ flush_mode = ""
    /\ sent = <<>>
    /\ flush_return = ""
    /\ warnings = 0

\* no RegressionDetector is under examination
DetectorIdle ==
    /\ baseline_file = <<>>
    /\ baseline = <<>>
    /\ current_results = <<>>
    /\ dpc = ""
    /\ upc = ""
    /\ check_return = <<>>

\* no ReportGenerator is under examination
ReportIdle ==
    /\ report_results = <<>>
    /\ markdown_return = <<>>
    /\ tree_return = <<>>

MetricsIdle ==
    /\ latency_samples = <<>>
    /\ percentiles_return = <<>>

ScaleIdle == scale_calls = <<>>

SessionIdle ==
    /\ exec_pos = 0
    /\ sessions = <<>>

LibIdle ==
    /\ StatsIdle /\ CacheIdle /\ DetectorIdle /\ ReportIdle /\ MetricsIdle
    /\ ScaleIdle /\ SessionIdle

InitIn(runs) == Environment(runs) /\ SuiteStart /\ LibIdle

\* a run of quick mode
Init == InitIn(QuickRuns)

\* a run of full mode
InitFull == InitIn(FullRuns)

envVars == <<mode, shared_buffers_mb, max_workers, dbExecTime, dbIndexMB,
            has_buffercache>>
dbVars == <<tables, indexes, extensions>>
loopVars == <<eng, queries, qi, mi, index_size>>

----------------------------------------------------------------------------
(* BenchmarkRunner.run *)

\* a runner that goes on to the workloads when CREATE EXTENSION has failed
InstallExtension_IgnoresFailure ==
    /\ rpc = "start"
    /\ rpc' = IF Workloads = <<>> THEN "reports" ELSE "loop"
    /\ \/ /\ extensions' = extensions \cup {"smol"}
          /\ faults' = faults
       \/ /\ MayFail
          /\ extensions' = extensions
          /\ faults' = faults + 1
    /\ UNCHANGED <<envVars, libVars, idx, results, outcome, reports, regression,
                   wpc, loopVars, wresults, log, tables, indexes>>

\* print_header, then CREATE EXTENSION IF NOT EXISTS smol; a failure is
\* answered with sys.exit(1), which main's handlers do not catch
InstallExtension ==
    /\ rpc = "start"
    /\ \/ /\ rpc' = IF Workloads = <<>> THEN "reports" ELSE "loop"
          /\ extensions' = extensions \cup {"smol"}
          /\ faults' = faults
       \/ /\ MayFail
          /\ rpc' = "aborted"
          /\ extensions' = extensions
          /\ faults' = faults + 1
    /\ UNCHANGED <<envVars, libVars, idx, results, outcome, reports, regression,
                   wpc, loopVars, wresults, log, tables, indexes>>

\* the loop moves to the next workload, or past the last one
NextWorkload ==
    /\ idx' = idx + 1
    /\ rpc' = IF idx = Len(Workloads) THEN "reports" ELSE "loop"
    /\ wpc' = "gen"

\* a runner that keeps what a failed run had measured
Raised_KeepsPartial ==
    /\ outcome' = Append(outcome, "raised")
    /\ NextWorkload
    /\ results' = results \o wresults

\* an exception leaves workload.run(); the runner's except clause prints it
\* and continues with the next workload
Raised ==
    /\ outcome' = Append(outcome, "raised")
    /\ NextWorkload
    /\ UNCHANGED results

\* a KeyboardInterrupt passes the runner's except Exception clause and
\* leaves run(); main's handler prints and calls sys.exit(1)
Interrupted ==
    /\ rpc' = "interrupted"
    /\ wpc' = "stopped"
    /\ UNCHANGED <<idx, results, outcome>>

\* what follows when a call in workload.run() ends with an exception that no
\* handler inside run() catches
Throw(kind) == IF kind = "KeyboardInterrupt" THEN Interrupted ELSE Raised

----------------------------------------------------------------------------
(* WorkloadBase.run *)

InRun(pc) == rpc = "loop" /\ wpc = pc

\* run() starts: results = [], then generate_data(); statement k fails, or
\* none does (k = 0)
GenerateData ==
    /\ InRun("gen")
    /\ \E k \in 0..Len(GenStmts(cur)) :
        LET done == IF k = 0 THEN GenStmts(cur) ELSE SubSeq(GenStmts(cur), 1, k - 1)
            db == ApplyGenStmts(DB, cur, done)
        IN /\ tables' = db.tables
           /\ indexes' = db.indexes
           /\ wresults' = <<>>
           /\ IF k = 0
              THEN /\ log' = <<Ev("generate_data", "", "", "")>>
                   /\ wpc' = "build"
                   /\ eng' = 1
                   /\ UNCHANGED <<faults, rpc, idx, results, outcome>>
              ELSE /\ MayFail
                   /\ faults' = faults + 1
                   /\ \E kind \in FaultKinds :
                        /\ log' = <<Failed(Ev("generate_data", "", "", ""), kind)>>
                        /\ Throw(kind)
                   /\ eng' = eng
    /\ UNCHANGED <<envVars, libVars, reports, regression, queries, qi, mi, index_size,
                   extensions>>

\* a run() that measures every query in the first cache mode only
Advance_FirstModeOnly(q, m) ==
    IF q < Len(queries')
    THEN /\ wpc' = "query" /\ eng' = eng /\ qi' = q + 1 /\ mi' = 1
    ELSE IF eng < Len(Engines)
    THEN /\ wpc' = "build" /\ eng' = eng + 1 /\ qi' = 1 /\ mi' = 1
    ELSE /\ wpc' = "cleanup" /\ eng' = eng /\ qi' = 1 /\ mi' = 1

\* a run() that cleans up as soon as the first engine's queries are done
Advance_CleansUpEarly(q, m) ==
    IF m < Len(cur.cache_modes)
    THEN /\ wpc' = "query" /\ eng' = eng /\ qi' = q /\ mi' = m + 1
    ELSE IF q < Len(queries')
    THEN /\ wpc' = "query" /\ eng' = eng /\ qi' = q + 1 /\ mi' = 1
    ELSE /\ wpc' = "cleanup" /\ eng' = eng /\ qi' = 1 /\ mi' = 1

\* where run() continues once the query at (q, m) of the current engine is done
Advance(q, m) ==
    IF m < Len(cur.cache_modes)
    THEN /\ wpc' = "query" /\ eng' = eng /\ qi' = q /\ mi' = m + 1
    ELSE IF q < Len(queries')
    THEN /\ wpc' = "query" /\ eng' = eng /\ qi' = q + 1 /\ mi' = 1
    ELSE IF eng < Len(Engines)
    THEN /\ wpc' = "build" /\ eng' = eng + 1 /\ qi' = 1 /\ mi' = 1
    ELSE /\ wpc' = "cleanup" /\ eng' = eng /\ qi' = 1 /\ mi' = 1

\* The head of the engine loop: build_index(engine), which is DROP INDEX IF
\* EXISTS and the timed CREATE INDEX, then get_index_size(engine), then the
\* query loop starts with get_queries().  Call k of the three fails, or none
\* does (k = 0).
BuildIndex ==
    /\ InRun("build")
    /\ \E k \in 0..3 :
        LET engine == Engines[eng]
            dropped == DropIndex(DB, idx_name(cur, engine))
            db == CASE k = 1 -> DB
                    [] k = 2 -> dropped
                    [] OTHER -> CreateIndex(dropped, cur, engine)
        IN /\ tables' = db.tables
           /\ indexes' = db.indexes
           /\ IF k = 0
              THEN /\ log' = log \o <<Ev("build_index", engine, "", ""),
                                       Ev("get_index_size", engine, "", "")>>
                   /\ index_size' = dbIndexMB[engine]
                   /\ \E random_id \in RandomIds(cur) : queries' = get_queries(cur, random_id)
                   /\ IF queries' = <<>> \/ cur.cache_modes = <<>>
                      THEN Advance(Len(queries'), Len(cur.cache_modes))
                      ELSE wpc' = "query" /\ eng' = eng /\ qi' = 1 /\ mi' = 1
                   /\ UNCHANGED <<faults, rpc, idx, results, outcome, wresults>>
              ELSE /\ MayFail
                   /\ faults' = faults + 1
                   /\ \E kind \in FaultKinds :
                        /\ log' = log \o
                             (IF k = 3
                              THEN <<Ev("build_index", engine, "", ""),
                                     Failed(Ev("get_index_size", engine, "", ""), kind)>>
                              ELSE <<Failed(Ev("build_index", engine, "", ""), kind)>>)
                        /\ Throw(kind)
                   /\ UNCHANGED <<loopVars, wresults>>
    /\ UNCHANGED <<envVars, libVars, reports, regression, extensions>>

\* execute_query(query, engine, cache_mode).  The calls at the positions of
\* absorbed fail inside a try block of flush_relation and are swallowed; call
\* k fails outside any try block and ends execute_query, or none does
\* (k = 0) and the result is appended.
ExecuteQuery ==
    /\ InRun("query")
    /\ LET query == queries[qi]
           engine == Engines[eng]
           cache_mode == cur.cache_modes[mi]
           calls == QueryCalls(query, engine, cache_mode, has_buffercache)
       IN \E k \in 0..Len(calls) :
          \E absorbed \in SUBSET {i \in Guarded(calls) : k = 0 \/ i < k} :
          \E ak \in [absorbed -> FaultKinds] :
            /\ \A i \in absorbed : ~Skipped(calls, absorbed, i)
            /\ faults' = faults + Cardinality(absorbed) + (IF k = 0 THEN 0 ELSE 1)
            /\ faults' <= MaxFaults
            /\ IF k = 0
               THEN /\ log' = log \o Made(calls, Len(calls), ak)
                                  \o <<Ev("result", engine, query.id, cache_mode)>>
                    /\ wresults' = Append(wresults,
                           Result(cur, query, engine, cache_mode, index_size, dbExecTime))
                    /\ queries' = queries
                    /\ index_size' = index_size
                    /\ Advance(qi, mi)
                    /\ UNCHANGED <<rpc, idx, results, outcome>>
               ELSE /\ calls[k].try = 0
                    /\ CanFail(calls[k])
                    /\ \E kind \in FaultKinds :
                         /\ log' = log \o Made(calls, k - 1, ak)
                                       \o <<Failed(calls[k].e, kind)>>
                         /\ Throw(kind)
                    /\ UNCHANGED <<loopVars, wresults>>
    /\ UNCHANGED <<envVars, libVars, reports, regression, dbVars>>

\* cleanup(): DROP TABLE IF EXISTS table CASCADE.  Then run() returns its
\* list and the runner extends self.results with it.
Cleanup ==
    /\ InRun("cleanup")
    /\ \/ /\ log' = Append(log, Ev("cleanup", "", "", ""))
          /\ LET db == DropTable(DB, get_actual_table_name(cur))
             IN tables' = db.tables /\ indexes' = db.indexes
          /\ results' = results \o wresults
          /\ outcome' = Append(outcome, "ok")
          /\ NextWorkload
          /\ UNCHANGED <<faults, wresults>>
       \/ /\ MayFail
          /\ faults' = faults + 1
          /\ \E kind \in FaultKinds :
               /\ log' = Append(log, Failed(Ev("cleanup", "", "", ""), kind))
               /\ Throw(kind)
          /\ UNCHANGED <<tables, indexes, wresults>>
    /\ UNCHANGED <<envVars, libVars, reports, regression, loopVars, extensions>>

----------------------------------------------------------------------------
(* After the loop *)

\* generate_reports(): nothing without results; otherwise the results
\* document and the narrative are written and the decision tree is printed.
\* An exception of the decision tree leaves run() and reaches main's handler.
GenerateReports ==
    /\ rpc = "reports"
    /\ IF results = <<>>
       THEN reports' = "skipped" /\ rpc' = "regress"
       ELSE /\ reports' = "written"
            /\ rpc' = IF generate_decision_tree_raises(results)
                      THEN "fatal" ELSE "regress"
    /\ UNCHANGED <<envVars, libVars, faults, idx, results, outcome, regression,
                   wpc, loopVars, wresults, log, dbVars>>

\* check_regressions(): with no baseline file the detector reports nothing
CheckRegressions ==
    /\ rpc = "regress"
    /\ regression' = "checked"
    /\ rpc' = "done"
    /\ UNCHANGED <<envVars, libVars, faults, idx, results, outcome, reports,
                   wpc, loopVars, wresults, log, dbVars>>

Next ==
    \/ InstallExtension
    \/ GenerateData
    \/ BuildIndex
    \/ ExecuteQuery
    \/ Cleanup
    \/ GenerateReports
    \/ CheckRegressions

Spec == Init /\ [][Next]_vars

SpecFull == InitFull /\ [][Next]_vars

----------------------------------------------------------------------------
(* Properties of WorkloadBase.run *)

\* the workload whose run the log and wresults describe: the running one, or
\* between two runs the one that ended last (0 before the first run)
LogOwner == IF wpc = "gen" THEN idx - 1 ELSE idx

\* the step of run() an event belongs to
StepOf(e) ==
    CASE e.ev = "generate_data" -> 0
      [] e.ev = "cleanup" -> 5
      [] e.ev \in {"build_index", "get_index_size"} ->
            IF e.engine = Engines[1] THEN 1 ELSE 3
      [] OTHER -> IF e.engine = Engines[1] THEN 2 ELSE 4

\* the number of results a complete run of workload c produces
ExpectedCount(c) == Len(Engines) * Len(get_queries(c, 1)) * Len(c.cache_modes)

ResultEvents == SelectSeq(log, LAMBDA e : e.ev = "result")

\* C1: within one workload run the steps happen in the order generate_data,
\* build_index and queries of the first engine, build_index and queries of
\* the second engine, cleanup; generate_data happens once and first,
\* build_index once per engine and before every query of that engine, cleanup
\* once, last, and only after every query execution; no step is re-entered.
C1_LinearLifecycle ==
    /\ log # <<>> => log[1].ev = "generate_data"
    /\ \A i \in DOMAIN log :
        /\ log[i].ev = "generate_data" => i = 1
        /\ i > 1 =>
            LET before == StepOf(log[i - 1])
                step == StepOf(log[i])
            IN /\ step \in {before, before + 1}
               /\ step \in {1, 3} =>
                    (log[i].ev = "build_index" <=> step = before + 1)
               /\ log[i].ev = "cleanup" =>
                    /\ step = before + 1
                    /\ i = Len(log)
                    /\ Len(ResultEvents) = ExpectedCount(Workloads[LogOwner])

\* a complete run: both engines built and queried, cleanup reached
C1_Witness ==
    /\ log # <<>>
    /\ log[Len(log)].ev = "cleanup"
    /\ \E i, j \in DOMAIN log :
        /\ log[i] = Ev("build_index", "btree", "", "")
        /\ log[j] = Ev("build_index", "smol", "", "")
    /\ Len(ResultEvents) > 2

KeyOf(r) == <<r.engine, r.query_id, r.cache_mode>>

\* the executions of a complete run of workload c in the order the
\* specification gives: btree before smol, within an engine the queries as
\* get_queries() declares them, within a query the cache modes as configured
ExpectedKeys(c) ==
    LET qs == get_queries(c, 1)
        M == Len(c.cache_modes)
        per == Len(qs) * M
    IN [k \in 1..(2 * per) |->
            <<IF k <= per THEN "btree" ELSE "smol",
              qs[(((k - 1) % per) \div M) + 1].id,
              c.cache_modes[((k - 1) % M) + 1]>>]

\* the events of one query execution
ExecutionEvents ==
    {"set", "flush_relation", "warmup", "measured",
     "CHECKPOINT", "DISCARD PLANS", "pg_buffercache_evict_relation", "count"}

RunReturned == wpc = "gen" /\ idx > 1 /\ outcome[idx - 1] = "ok"

\* C2: in one workload run every btree query execution precedes the smol
\* index build; the executions of an engine follow get_queries() order and,
\* per query, cache_modes order; the list run() returns, and what the runner
\* takes from it, is in that same order.
C2_ExecutionOrder ==
    LogOwner > 0 =>
        LET expected == ExpectedKeys(Workloads[LogOwner])
            done == ResultEvents
        IN /\ Len(wresults) <= Len(expected)
           /\ Len(done) = Len(wresults)
           /\ \A k \in DOMAIN wresults :
                /\ KeyOf(wresults[k]) = expected[k]
                /\ KeyOf(done[k]) = expected[k]
           /\ \A i \in 2..Len(log) :
                /\ log[i - 1].engine = "smol" => log[i].engine # "btree"
                /\ log[i - 1].ev \in ExecutionEvents =>
                     /\ log[i].ev \in ExecutionEvents \cup {"result"}
                     /\ KeyOf(log[i]) = KeyOf(log[i - 1])
                /\ (log[i].ev \in ExecutionEvents
                    /\ log[i - 1].ev \notin ExecutionEvents) =>
                     KeyOf(log[i]) = expected[Len(SelectSeq(SubSeq(log, 1, i),
                                            LAMBDA e : e.ev = "result")) + 1]
           /\ RunReturned =>
                /\ Len(results) >= Len(wresults)
                /\ SubSeq(results, Len(results) - Len(wresults) + 1, Len(results))
                     = wresults

\* a run with several queries and several cache modes has returned
C2_Witness ==
    /\ RunReturned
    /\ Len(get_queries(Workloads[LogOwner], 1)) > 1
    /\ Len(Workloads[LogOwner].cache_modes) > 1
    /\ Len(wresults) = ExpectedCount(Workloads[LogOwner])

RunEnded == wpc = "gen" /\ idx > 1

\* C3: when a workload's run attempt has ended, normally or by an exception
\* at any step, cleanup() has been executed and the workload's table does
\* not exist.
C3_CleanupAfterEveryAttempt ==
    RunEnded =>
        /\ \E i \in DOMAIN log : log[i].ev = "cleanup"
        /\ get_actual_table_name(Workloads[idx - 1]) \notin tables

----------------------------------------------------------------------------
(* Properties of BenchmarkRunner.run *)

SomeRaised == \E k \in DOMAIN outcome : outcome[k] = "raised"

\* C4: when a workload raises, every later workload is still started, in
\* list order, and report generation and the regression check run after the
\* last workload; the suite does not abort.
C4_FailureDoesNotAbort ==
    SomeRaised =>
        /\ rpc \notin {"fatal", "aborted"}
        /\ rpc \in {"reports", "regress", "done"} => Len(outcome) = Len(Workloads)
        /\ rpc = "done" => reports # "none" /\ regression = "checked"

\* the results of a complete run of workload c, as
\* <<workload_id, engine, query_id, cache_mode>>
FullKeys(c) ==
    LET keys == ExpectedKeys(c)
    IN [k \in DOMAIN keys |-> <<get_workload_id(c)>> \o keys[k]]

\* FullKeys of every workload of every modelled run, evaluated once
FullKeysTable ==
    [e \in Environments |->
        [i \in DOMAIN WorkloadTable[e] |-> FullKeys(WorkloadTable[e][i])]]

\* what the first n attempts leave downstream if each contributes all of its
\* results or none
RECURSIVE AllOrNothing(_)
AllOrNothing(n) ==
    IF n = 0 THEN <<>>
    ELSE AllOrNothing(n - 1)
         \o (IF outcome[n] = "ok"
             THEN FullKeysTable[<<mode, shared_buffers_mb, max_workers>>][n]
             ELSE <<>>)

\* C5: a workload contributes its complete result set when run() returned
\* and nothing when run() raised, whatever it had measured before; every
\* workload is attempted once.
C5_AllOrNothing ==
    /\ Len(outcome) = idx - 1
    /\ [k \in DOMAIN results |-> <<results[k].workload_id>> \o KeyOf(results[k])]
         = AllOrNothing(Len(outcome))

\* a run raised after it had measured something, after an earlier run had
\* returned
C5_Witness ==
    /\ RunEnded
    /\ outcome[idx - 1] = "raised"
    /\ wresults # <<>>
    /\ results # <<>>

SameCell(r, t) ==
    /\ r.workload_id = t.workload_id
    /\ r.query_id = t.query_id
    /\ r.cache_mode = t.cache_mode

\* C6: the results of a suite run hold at most two results for one
\* (workload_id, query_id, cache_mode), and at most one of them per engine.
C6_OneResultPerEngine ==
    \A i \in DOMAIN results :
        /\ Cardinality({j \in DOMAIN results : SameCell(results[i], results[j])}) <= 2
        /\ \A j \in DOMAIN results :
            (SameCell(results[i], results[j]) /\ results[i].engine = results[j].engine)
                => i = j

\* C7: workloads with different workload_ids use different tables, the table
\* follows from the workload_id alone, and so no workload creates, reads or
\* drops the table of another workload_id.
C7_TablePerWorkloadId ==
    LogOwner > 0 =>
        \A j \in 1..LogOwner :
            (get_workload_id(Workloads[j]) = get_workload_id(Workloads[LogOwner]))
                <=> (get_actual_table_name(Workloads[j])
                        = get_actual_table_name(Workloads[LogOwner]))

\* the query of workload c with the given id
QueryOf(c, id) ==
    LET qs == get_queries(c, 1)
    IN qs[CHOOSE k \in DOMAIN qs : qs[k].id = id]

\* the steps of one execution as the specification gives them: in cold mode
\* one flush and one measured run; otherwise the flush, one warm-up run, and
\* as many measured runs as the query's repeat says, 5 when it says nothing
SpecifiedSteps(query, cache_mode) ==
    IF cache_mode = "cold"
    THEN <<"flush_relation", "measured">>
    ELSE <<"flush_relation", "warmup">>
         \o [i \in 1..(IF query.given THEN query.repeat ELSE 5) |-> "measured"]

\* what the execution that produced result event e did, without the SETs
StepsOf(e) ==
    LET own == SelectSeq(log, LAMBDA x : KeyOf(x) = KeyOf(e)
                                         /\ x.ev \in {"flush_relation", "warmup",
                                                       "measured"})
    IN [k \in DOMAIN own |-> own[k].ev]

\* C8: a cold execution is one flush followed by one measured run, without a
\* warm-up; a hot or warm execution is the flush, one warm-up run, then
\* repeat measured runs (5 when the query sets none), with no flush in
\* between.
C8_RunsPerExecution ==
    \A i \in DOMAIN log :
        log[i].ev = "result" =>
            StepsOf(log[i])
              = SpecifiedSteps(QueryOf(Workloads[LogOwner], log[i].query_id),
                               log[i].cache_mode)

\* C9: a run that returns has produced exactly one result for every
\* combination of engine, query and cache mode, 2 * |queries| * |cache_modes|
\* in all.
C9_ResultCount ==
    RunReturned =>
        LET c == Workloads[LogOwner]
            qs == get_queries(c, 1)
        IN /\ Len(wresults) = 2 * Len(qs) * Len(c.cache_modes)
           /\ \A engine \in {"btree", "smol"} :
                \A q \in DOMAIN qs : \A m \in DOMAIN c.cache_modes :
                    Cardinality({k \in DOMAIN wresults :
                        /\ wresults[k].workload_id = get_workload_id(c)
                        /\ KeyOf(wresults[k]) = <<engine, qs[q].id, c.cache_modes[m]>>})
                      = 1

\* one query in hot mode only: two results
C9_Witness ==
    /\ RunReturned
    /\ Len(get_queries(Workloads[LogOwner], 1)) = 1
    /\ Workloads[LogOwner].cache_modes = <<"hot">>
    /\ Len(wresults) = 2

\* C10: unless the extension has been installed nothing of the suite happens:
\* when CREATE EXTENSION fails the run ends at once with the failure exit,
\* before any generate_data, and writes no report and checks no regression.
C10_NothingWithoutExtension ==
    /\ "smol" \notin extensions =>
        /\ rpc \in {"start", "aborted"}
        /\ log = <<>>
        /\ outcome = <<>>
        /\ tables = {}
        /\ reports = "none"
        /\ regression = "none"
    /\ rpc = "aborted" => ("smol" \notin extensions /\ ~ENABLED Next)

\* CREATE EXTENSION has failed
C10_Witness == rpc = "aborted" /\ faults = 1

----------------------------------------------------------------------------
(* Timeouts and interrupts *)

\* a database call of the run the log describes ended with the given exception
FaultSeen(kind) == \E i \in DOMAIN log : log[i].fault = kind

\* C11: a timeout of any database call made while a workload runs surfaces
\* as that workload's exception: the workload ends, contributes no results,
\* the runner goes on to the next workload and the process is not aborted.
C11_TimeoutEndsWorkload ==
    FaultSeen("Exception") =>
        /\ RunEnded
        /\ outcome[idx - 1] = "raised"
        /\ rpc \notin {"aborted", "interrupted", "fatal"}

\* C12: an interrupt that arrives while a workload is executing aborts the
\* run: no workload step follows it, no report is written, no regression
\* check runs, and the process exits with failure.
C12_InterruptAborts ==
    FaultSeen("KeyboardInterrupt") =>
        /\ rpc = "interrupted"
        /\ reports = "none"
        /\ regression = "none"
        /\ ~ENABLED Next

----------------------------------------------------------------------------
(* DatabaseConnection.execute_with_stats *)

\* the largest elapsed time of the fallback that is examined (ms)
MaxWallMs == 3

\* JSON values as json.loads returns them
JNull == [t |-> "null"]
JNum(n) == [t |-> "num", n |-> n]
JStr(str) == [t |-> "str", str |-> str]
JList(items) == [t |-> "list", items |-> items]
JDict(d) == [t |-> "dict", d |-> d]

\* what psql printed: text that is no JSON document, or a JSON document
NoJson(text) == [json |-> FALSE, text |-> text]
Json(value) == [json |-> TRUE, value |-> value]

\* a Python expression ends with a value or with an exception
Ok(value) == [raised |-> "", value |-> value]
Raise(exception) == [raised |-> exception]

json_loads(doc) == IF doc.json THEN Ok(doc.value) ELSE Raise("JSONDecodeError")

\* x[0]
Item0(x) ==
    CASE x.t = "list" -> IF x.items = <<>> THEN Raise("IndexError") ELSE Ok(x.items[1])
      [] x.t = "dict" -> Raise("KeyError")
      [] x.t = "str" -> IF x.str = "" THEN Raise("IndexError") ELSE Ok(JStr("c"))
      [] OTHER -> Raise("TypeError")

\* x[key] for a str key
Subscript(x, key) ==
    IF x.t = "dict"
    THEN IF key \in DOMAIN x.d THEN Ok(x.d[key]) ELSE Raise("KeyError")
    ELSE Raise("TypeError")

\* x.get(key, default)
Get(x, key, default) ==
    IF x.t = "dict"
    THEN Ok(IF key \in DOMAIN x.d THEN x.d[key] ELSE default)
    ELSE Raise("AttributeError")

\* e, unless an earlier step has raised
Then(before, e) == IF before.raised = "" THEN e ELSE before

\* execute_with_stats(sql) when the client exits successfully for every
\* statement: doc is the output of the EXPLAIN statement, wall the time
\* execute_timed measures
execute_with_stats(doc, wall) ==
    LET data == json_loads(doc)
        first == Then(data, Item0(data.value))
        plan == Then(first, Subscript(first.value, "Plan"))
        exec_time == Then(plan, Get(first.value, "Execution Time", JNum(0)))
        plan_time == Then(exec_time, Get(first.value, "Planning Time", JNum(0)))
        shared_hit == Then(plan_time, Get(plan.value, "Shared Hit Blocks", JNum(0)))
        shared_read == Then(shared_hit, Get(plan.value, "Shared Read Blocks", JNum(0)))
        rows == Then(shared_read, Get(plan.value, "Actual Rows", JNum(0)))
    IN IF rows.raised = ""
       THEN [raised |-> "", exec_time |-> exec_time.value,
             shared_hit |-> shared_hit.value, shared_read |-> shared_read.value]
       ELSE IF rows.raised \in {"JSONDecodeError", "KeyError"}
       THEN [raised |-> "", exec_time |-> JNum(wall),
             shared_hit |-> JNum(0), shared_read |-> JNum(0)]
       ELSE [raised |-> rows.raised]

\* a plan document as EXPLAIN (ANALYZE, BUFFERS, FORMAT JSON) prints it
PlanDocument ==
    JList(<<JDict(("Plan" :> JDict(("Shared Hit Blocks" :> JNum(3))
                                   @@ ("Shared Read Blocks" :> JNum(1))
                                   @@ ("Actual Rows" :> JNum(7))))
                  @@ ("Planning Time" :> JNum(1))
                  @@ ("Execution Time" :> JNum(2)))>>)

\* the outputs that are examined
ExplainOutputs ==
    <<Json(PlanDocument),
      Json(JList(<<JDict("Plan" :> JDict(<<>>))>>)),
      NoJson(""),
      NoJson("ERROR"),
      NoJson("[{"),
      Json(JDict(<<>>)),
      Json(JDict("Plan" :> JDict(<<>>))),
      Json(JList(<<JDict(<<>>)>>)),
      Json(JList(<<JDict("Execution Time" :> JNum(2))>>)),
      Json(JList(<<>>)),
      Json(JNull),
      Json(JNum(5)),
      Json(JStr("")),
      Json(JStr("plan")),
      Json(JList(<<JNull>>)),
      Json(JList(<<JList(<<>>)>>)),
      Json(JList(<<JDict("Plan" :> JNull)>>)),
      Json(JList(<<JDict("Plan" :> JStr("Seq Scan"))>>))>>

InitStats ==
    /\ Environment(QuickRuns)
    /\ SuiteStart
    /\ \E i \in DOMAIN ExplainOutputs : explain_output = ExplainOutputs[i]
    /\ wall_ms \in 0..MaxWallMs
    /\ stats_return = <<>>
    /\ CacheIdle
    /\ DetectorIdle
    /\ ReportIdle
    /\ MetricsIdle
    /\ ScaleIdle
    /\ SessionIdle

ExecuteWithStats ==
    /\ stats_return = <<>>
    /\ stats_return' = <<execute_with_stats(explain_output, wall_ms)>>
    /\ UNCHANGED <<suiteVars, explain_output, wall_ms, cacheVars, detectorVars, reportVars, metricsVars, scaleVars, sessionVars>>

SpecStats == InitStats /\ [][ExecuteWithStats]_vars

\* the output is a list whose first item is an object with an object "Plan"
HasPlanStructure(doc) ==
    /\ doc.json
    /\ doc.value.t = "list"
    /\ doc.value.items # <<>>
    /\ doc.value.items[1].t = "dict"
    /\ "Plan" \in DOMAIN doc.value.items[1].d
    /\ doc.value.items[1].d["Plan"].t = "dict"

\* C13: when the output of the plan-capture statement is empty, no valid
\* JSON, or JSON without the plan structure, execute_with_stats does not
\* raise and returns shared_hit = 0, shared_read = 0 and the wall-clock
\* time, which is not negative, as exec_time.
C13_DegradedStats ==
    (stats_return # <<>> /\ ~HasPlanStructure(explain_output)) =>
        /\ stats_return[1].raised = ""
        /\ stats_return[1].shared_hit = JNum(0)
        /\ stats_return[1].shared_read = JNum(0)
        /\ stats_return[1].exec_time = JNum(wall_ms)
        /\ wall_ms >= 0

----------------------------------------------------------------------------
(* CacheController.flush_relation *)

CacheModes == {"hot", "warm", "cold"}

\* the relations execute_query flushes: the index of each workload and engine
Relations == {idx_name(Workloads[i], Engines[j]) : i \in DOMAIN Workloads, j \in DOMAIN Engines}

\* a statement on its way to the database
Sent(sql) == [sql |-> sql, fault |-> ""]

\* the statements of flush_relation(name, cache_mode) as calls
FlushCalls(cache_mode, buffercache) ==
    LET stmts == flush_relation(cache_mode, buffercache)
    IN [i \in DOMAIN stmts |-> Call(Sent(stmts[i].sql), stmts[i].try)]

InitCache ==
    /\ Environment(Environments)
    /\ SuiteStart
    /\ StatsIdle
    /\ DetectorIdle
    /\ ReportIdle
    /\ MetricsIdle
    /\ ScaleIdle
    /\ SessionIdle
    /\ flush_name \in Relations
    /\ flush_mode \in CacheModes
    /\ sent = <<>>
    /\ flush_return = ""
    /\ warnings = 0

\* One call of flush_relation(flush_name, flush_mode).  A statement outside
\* the try blocks that fails ends the call with its exception; a statement
\* inside a try block that fails ends the block.  No path of the method logs.
FlushRelation ==
    /\ flush_return = ""
    /\ LET calls == FlushCalls(flush_mode, has_buffercache)
       IN \E k \in 0..Len(calls) :
          \E absorbed \in SUBSET {i \in Guarded(calls) : k = 0 \/ i < k} :
          \E ak \in [absorbed -> FaultKinds] :
            /\ \A i \in absorbed : ~Skipped(calls, absorbed, i)
            /\ IF k = 0
               THEN /\ sent' = Made(calls, Len(calls), ak)
                    /\ flush_return' = "returned"
               ELSE /\ calls[k].try = 0
                    /\ \E kind \in FaultKinds :
                         /\ sent' = Made(calls, k - 1, ak) \o <<Failed(calls[k].e, kind)>>
                         /\ flush_return' = kind
    /\ warnings' = warnings
    /\ UNCHANGED <<suiteVars, statsVars, detectorVars, reportVars, metricsVars, scaleVars, sessionVars, flush_name, flush_mode>>

SpecCache == InitCache /\ [][FlushRelation]_vars

\* C14: every flush_relation(name, cold) call made while the eviction
\* extension is unavailable returns normally and logs exactly one warning
\* during the call.
C14_ColdWithoutExtensionWarns ==
    (flush_mode = "cold" /\ ~has_buffercache /\ flush_return # "") =>
        /\ flush_return = "returned"
        /\ warnings = 1

\* the statements of a sequence of sent statements, failed or not
Sqls(stmts) == [i \in DOMAIN stmts |-> stmts[i].sql]

IsPrefix(a, b) == Len(a) <= Len(b) /\ a = SubSeq(b, 1, Len(a))

\* C15: a flush_relation(name, hot) call sends no statement and leaves the
\* database and the controller as they were; a flush_relation(name, warm)
\* call sends a checkpoint, then a plan-cache discard, and nothing else (a
\* call that a failing statement ends sends no statement after it).
C15_HotAndWarmStatements ==
    [][/\ flush_mode = "hot" =>
            /\ sent' = <<>>
            /\ flush_return' = "returned"
            /\ UNCHANGED <<tables, indexes, extensions, has_buffercache>>
       /\ flush_mode = "warm" =>
            /\ IsPrefix(Sqls(sent'), <<"CHECKPOINT", "DISCARD PLANS">>)
            /\ sent' # <<>>
            /\ flush_return' = "returned" =>
                  sent' = <<Sent("CHECKPOINT"), Sent("DISCARD PLANS")>>]_vars

C15_Witness ==
    /\ flush_mode = "warm"
    /\ flush_return = "returned"
    /\ sent = <<Sent("CHECKPOINT"), Sent("DISCARD PLANS")>>

----------------------------------------------------------------------------
(* Python floats.  The numbers of a result set and of a baseline are whole  *)
(* numbers below 2^15; what the detector computes from them are IEEE 754    *)
(* doubles, m * 2^e with m below 2^53 or equal to it, each operation        *)
(* rounded to the nearest double, ties to the even one.  m is written in    *)
(* binary digits, lowest first, the highest digit 1, and 0 is <<>>.         *)

Norm(a) ==
    LET ones == {i \in DOMAIN a : a[i] = 1}
    IN SubSeq(a, 1, IF ones = {} THEN 0 ELSE CHOOSE i \in ones : \A j \in ones : j <= i)

\* the digits of n, 0 <= n < 2^30
Bits(n) == Norm([i \in 1..30 |-> (n \div 2^(i - 1)) % 2])

Shl(a, k) == IF a = <<>> THEN <<>> ELSE [i \in 1..k |-> 0] \o a

Shr(a, k) == SubSeq(a, k + 1, Len(a))

Digit(a, i) == IF i \in DOMAIN a THEN a[i] ELSE 0

\* the carry into digit i of a + b
Carry(a, b, i) ==
    IF \E j \in 1..(i - 1) :
          /\ Digit(a, j) + Digit(b, j) = 2
          /\ \A k \in (j + 1)..(i - 1) : Digit(a, k) + Digit(b, k) = 1
    THEN 1 ELSE 0

Add(a, b) ==
    LET n == (IF Len(a) > Len(b) THEN Len(a) ELSE Len(b)) + 1
    IN Norm([i \in 1..n |-> (Digit(a, i) + Digit(b, i) + Carry(a, b, i)) % 2])

RECURSIVE MulSmall(_, _)
MulSmall(a, n) ==
    IF n = 0 \/ a = <<>> THEN <<>>
    ELSE Add(IF n % 2 = 1 THEN a ELSE <<>>, Shl(MulSmall(a, n \div 2), 1))

\* a > b
Greater(a, b) ==
    IF Len(a) # Len(b) THEN Len(a) > Len(b)
    ELSE \E i \in DOMAIN a : a[i] > b[i] /\ \A j \in (i + 1)..Len(a) : a[j] = b[j]

\* a * 2^(15 * k) divided by n, for 0 <= a < 2^30 and 0 < n < 2^15: the
\* quotient and the remainder
RECURSIVE DivShifted(_, _, _)
DivShifted(a, n, k) ==
    IF k = 0 THEN [q |-> Bits(a \div n), r |-> a % n]
    ELSE LET hi == DivShifted(a, n, k - 1)
             num == hi.r * 2^15
         IN [q |-> Add(Bits(num \div n), Shl(hi.q, 15)), r |-> num % n]

\* the double nearest to (a + f) * 2^e, where 0 <= f < 1 and sticky is f > 0
Round53(a, sticky, e) ==
    IF Len(a) <= 53 THEN [m |-> a, e |-> e]
    ELSE LET d == Len(a) - 53
             q == Shr(a, d)
             below == sticky \/ \E i \in 1..(d - 1) : a[i] = 1
             up == a[d] = 1 /\ (below \/ q[1] = 1)
         IN [m |-> IF up THEN Add(q, <<1>>) ELSE q, e |-> e + d]

\* float(n)
float(n) == [m |-> Bits(n), e |-> 0]

\* a / n
truediv(a, n) ==
    LET d == DivShifted(a, n, 5)
    IN Round53(d.q, d.r # 0, -75)

\* u + v
add(u, v) ==
    LET e == Min(u.e, v.e)
    IN Round53(Add(Shl(u.m, u.e - e), Shl(v.m, v.e - e)), FALSE, e)

\* n * u
mul(n, u) == Round53(MulSmall(u.m, n), FALSE, u.e)

\* u > v
gt(u, v) ==
    LET e == Min(u.e, v.e)
    IN Greater(Shl(u.m, u.e - e), Shl(v.m, v.e - e))

----------------------------------------------------------------------------
(* RegressionDetector *)

\* the longest result set that is examined
MaxResults == 2

\* threshold of check, in percent
threshold == 15

\* 1 + threshold / 100
Factor == add(float(1), truediv(threshold, 100))

\* the latencies (ms) and index sizes (MB) of the results that are examined
Measures == {100, 115, 116}

\* the numbers of the baselines that are examined
BaselineNumbers == {0, 10, 100}

\* the results of one workload and engine that are examined:
\* <<latency_avg_ms, index_size_mb>>
Samples == <<<<100, 100>>, <<115, 115>>, <<116, 100>>>>

WorkloadResult(workload_id, engine, sample) ==
    [workload_id |-> workload_id, engine |-> engine,
     latency_avg_ms |-> sample[1], index_size_mb |-> sample[2], build_time_ms |-> 5]

WorkloadResults ==
    {WorkloadResult(k[1], k[2], Samples[i]) :
        k \in {<<"w1", "smol">>, <<"w1", "btree">>, <<"w2", "smol">>}, i \in DOMAIN Samples}

\* the result sets that are examined
ResultSets == UNION {[1..n -> WorkloadResults] : n \in 0..MaxResults}

\* sum(r.latency_avg_ms for r in workload_results) and len(workload_results)
\* of the groups of the result sets
MeanArgs == UNION {{<<sum(f), n>> : f \in [1..n -> Measures]} : n \in 1..MaxResults}

\* the <<<<total, count>>, baseline_latency>> of the numbers examined with
\* avg_latency > baseline_latency * (1 + threshold / 100)
RECURSIVE LatencyExceedsIn(_)
LatencyExceedsIn(S) ==
    IF S = {} THEN {}
    ELSE LET a == CHOOSE a \in S : TRUE
         IN (IF gt(truediv(a[1][1], a[1][2]), mul(a[2], Factor)) THEN {a} ELSE {})
            \cup LatencyExceedsIn(S \ {a})

LatencyExceeds == LatencyExceedsIn(MeanArgs \X BaselineNumbers)

\* the <<current_size, baseline_size>> with
\* current_size > baseline_size * (1 + threshold / 100)
RECURSIVE SizeExceedsIn(_)
SizeExceedsIn(S) ==
    IF S = {} THEN {}
    ELSE LET a == CHOOSE a \in S : TRUE
         IN (IF gt(float(a[1]), mul(a[2], Factor)) THEN {a} ELSE {})
            \cup SizeExceedsIn(S \ {a})

SizeExceeds == SizeExceedsIn(Measures \X BaselineNumbers)

\* what json.dump writes for avg_latency, the quotient total / count
JMean(total, count) == [t |-> "num", total |-> total, count |-> count]

\* the file at baseline_path: absent, bytes that are no UTF-8 text, or text
Missing == [exists |-> FALSE]
Undecodable == [exists |-> TRUE, decodes |-> FALSE]
File(doc) == [exists |-> TRUE, decodes |-> TRUE, doc |-> doc]

\* _load_baseline: the value of self.baseline (None is JNull), or the
\* exception that leaves __init__
load_baseline(file) ==
    IF ~file.exists THEN Ok(JNull)
    ELSE IF ~file.decodes THEN Raise("UnicodeDecodeError")
    ELSE LET data == json_loads(file.doc)
         IN IF data.raised = "JSONDecodeError" THEN Ok(JNull) ELSE data

\* bool(x), as "not x" uses it
Truthy(x) ==
    CASE x.t = "null" -> FALSE
      [] x.t = "num" -> x.n # 0
      [] x.t = "str" -> x.str # ""
      [] x.t = "list" -> x.items # <<>>
      [] x.t = "dict" -> DOMAIN x.d # {}

\* key in x, for a str key; of the strings examined only key itself has key
\* as a substring
Contains(key, x) ==
    CASE x.t = "dict" -> Ok(key \in DOMAIN x.d)
      [] x.t = "list" -> Ok(\E i \in DOMAIN x.items : x.items[i] = JStr(key))
      [] x.t = "str" -> Ok(x.str = key)
      [] OTHER -> Raise("TypeError")

RECURSIVE Keys(_)
Keys(S) == IF S = {} THEN <<>> ELSE LET k == CHOOSE k \in S : TRUE IN <<JStr(k)>> \o Keys(S \ {k})

\* the items "for result in x" goes through; the characters of a string are
\* strings
Iterate(x) ==
    CASE x.t = "list" -> Ok(x.items)
      [] x.t = "dict" -> Ok(Keys(DOMAIN x.d))
      [] x.t = "str" -> Ok(IF x.str = "" THEN <<>> ELSE <<JStr("c")>>)
      [] OTHER -> Raise("TypeError")

\* the loop of _find_baseline_result from item i on
RECURSIVE FindFrom(_, _, _)
FindFrom(items, i, workload_id) ==
    IF i > Len(items) THEN Ok(JNull)
    ELSE LET id == Get(items[i], "workload_id", JNull)
         IN IF id.raised # "" THEN id
            ELSE IF id.value = JStr(workload_id) THEN Ok(items[i])
            ELSE FindFrom(items, i + 1, workload_id)

\* _find_baseline_result(workload_id) of a detector with self.baseline = base
find_baseline_result(base, workload_id) ==
    IF ~Truthy(base) THEN Ok(JNull)
    ELSE LET has == Contains("results", base)
         IN IF has.raised # "" THEN has
            ELSE IF ~has.value THEN Ok(JNull)
            ELSE LET rs == Subscript(base, "results")
                     items == Then(rs, Iterate(rs.value))
                 IN IF items.raised # "" THEN items
                    ELSE FindFrom(items.value, 1, workload_id)

KeyOfResult(r) == <<r.workload_id, r.engine>>

\* the keys of workload_stats, in the order of their insertion
RECURSIVE GroupKeys(_)
GroupKeys(rs) ==
    IF rs = <<>> THEN <<>>
    ELSE LET before == GroupKeys(SubSeq(rs, 1, Len(rs) - 1))
             key == KeyOfResult(rs[Len(rs)])
         IN IF \E i \in DOMAIN before : before[i] = key THEN before
            ELSE Append(before, key)

\* workload_stats[key]
Group(rs, key) == SelectSeq(rs, LAMBDA r : KeyOfResult(r) = key)

\* loops that skip no engine
SmolKeys_EveryEngine(rs) == GroupKeys(rs)

\* the keys the loops of check and update_baseline do not skip
SmolKeys(rs) == SelectSeq(GroupKeys(rs), LAMBDA key : key[2] = "smol")

Latencies(rs) == [i \in DOMAIN rs |-> rs[i].latency_avg_ms]

\* One comparison of check, given the baseline's number for the metric and
\* whether the current value exceeds it: the regressions it appends.
\* regression_pct, which the division by the baseline yields, is left out
\* of the record.
Compare(workload_id, metric, number, current, exceeds) ==
    IF exceeds
    THEN IF number = 0 THEN Raise("ZeroDivisionError")
         ELSE Ok(<<[workload |-> workload_id, metric |-> metric,
                    baseline |-> number, current |-> current]>>)
    ELSE Ok(<<>>)

\* the latency comparison of check for the results rs of one workload
CheckLatency(baseline_result, workload_id, rs) ==
    IF "latency_avg_ms" \notin DOMAIN baseline_result.d THEN Ok(<<>>)
    ELSE LET baseline_latency == baseline_result.d["latency_avg_ms"]
             total == sum(Latencies(rs))
         IN IF baseline_latency.t # "num" THEN Raise("TypeError")
            ELSE Compare(workload_id, "latency_avg_ms", baseline_latency.n,
                         <<total, Len(rs)>>,
                         <<<<total, Len(rs)>>, baseline_latency.n>> \in LatencyExceeds)

\* the index size comparison of check
CheckSize(baseline_result, workload_id, rs) ==
    IF "index_size_mb" \notin DOMAIN baseline_result.d THEN Ok(<<>>)
    ELSE LET baseline_size == baseline_result.d["index_size_mb"]
             current_size == rs[1].index_size_mb
         IN IF baseline_size.t # "num" THEN Raise("TypeError")
            ELSE Compare(workload_id, "index_size_mb", baseline_size.n,
                         <<current_size, 1>>,
                         <<current_size, baseline_size.n>> \in SizeExceeds)

\* the second loop of check over the remaining keys
RECURSIVE CheckFrom(_, _, _, _)
CheckFrom(base, rs, keys, regressions) ==
    IF keys = <<>> THEN Ok(regressions)
    ELSE LET workload_id == Head(keys)[1]
             workload_results == Group(rs, Head(keys))
             found == find_baseline_result(base, workload_id)
         IN IF found.raised # "" THEN found
            ELSE IF ~Truthy(found.value)
            THEN CheckFrom(base, rs, Tail(keys), regressions)
            ELSE LET latency == CheckLatency(found.value, workload_id, workload_results)
                     size == Then(latency, CheckSize(found.value, workload_id, workload_results))
                 IN IF size.raised # "" THEN size
                    ELSE CheckFrom(base, rs, Tail(keys),
                                   regressions \o latency.value \o size.value)

\* check(results) of a detector with self.baseline = base
check(base, rs) ==
    IF ~Truthy(base) THEN Ok(<<>>) ELSE CheckFrom(base, rs, SmolKeys(rs), <<>>)

\* result_dict of update_baseline for one key
BaselineEntry(rs, key) ==
    LET workload_results == Group(rs, key)
    IN JDict(("workload_id" :> JStr(key[1]))
             @@ ("latency_avg_ms" :> JMean(sum(Latencies(workload_results)), Len(workload_results)))
             @@ ("index_size_mb" :> JNum(workload_results[1].index_size_mb))
             @@ ("build_time_ms" :> JNum(workload_results[1].build_time_ms)))

\* an update that writes an entry for every engine's results
baseline_data_EveryEngine(rs) ==
    LET keys == GroupKeys(rs)
    IN JDict("results" :> JList([i \in DOMAIN keys |-> BaselineEntry(rs, keys[i])]))

\* baseline_data of update_baseline
baseline_data(rs) ==
    LET keys == SmolKeys(rs)
    IN JDict("results" :> JList([i \in DOMAIN keys |-> BaselineEntry(rs, keys[i])]))

\* a baseline document as update_baseline writes it, with whole numbers
BaselineOf(entries) ==
    JDict("results" :>
        JList([i \in DOMAIN entries |->
            JDict(("workload_id" :> JStr(entries[i][1]))
                  @@ ("latency_avg_ms" :> JNum(entries[i][2]))
                  @@ ("index_size_mb" :> JNum(entries[i][3]))
                  @@ ("build_time_ms" :> JNum(5)))]))

\* the baseline files that are examined
BaselineFiles ==
    <<Missing,
      Undecodable,
      File(NoJson("")),
      File(NoJson("{ \"results\": [")),
      File(Json(JNull)),
      File(Json(JNum(5))),
      File(Json(JStr("results"))),
      File(Json(JList(<<>>))),
      File(Json(JList(<<JStr("results")>>))),
      File(Json(JDict(<<>>))),
      File(Json(JDict("baseline" :> JNum(5)))),
      File(Json(JDict("results" :> JNum(5)))),
      File(Json(JDict("results" :> JList(<<JNum(5)>>)))),
      File(Json(JDict("results" :> JList(<<JDict("workload_id" :> JStr("w1"))>>)))),
      File(Json(JDict("results" :> JList(<<JDict(("workload_id" :> JStr("w1"))
                                                 @@ ("latency_avg_ms" :> JStr("fast")))>>)))),
      File(Json(BaselineOf(<<>>))),
      File(Json(BaselineOf(<<<<"w1", 100, 100>>>>))),
      File(Json(BaselineOf(<<<<"w1", 10, 10>>, <<"w2", 100, 100>>>>))),
      File(Json(BaselineOf(<<<<"w2", 100, 100>>>>))),
      File(Json(BaselineOf(<<<<"w1", 0, 0>>>>)))>>

\* what the file holds when json.dump has not come to its end
PartialTexts == {"", "{", "{ \"results\": ["}

InitDetector ==
    /\ Environment(QuickRuns)
    /\ SuiteStart
    /\ StatsIdle
    /\ CacheIdle
    /\ ReportIdle
    /\ MetricsIdle
    /\ ScaleIdle
    /\ SessionIdle
    /\ \E i \in DOMAIN BaselineFiles : baseline_file = BaselineFiles[i]
    /\ baseline = JNull
    /\ current_results \in ResultSets
    /\ dpc = "new"
    /\ upc = "idle"
    /\ check_return = <<>>

\* RegressionDetector(baseline_path)
NewDetector ==
    /\ dpc = "new"
    /\ LET loaded == load_baseline(baseline_file)
       IN IF loaded.raised = ""
          THEN baseline' = loaded.value /\ dpc' = "ready"
          ELSE baseline' = baseline /\ dpc' = loaded.raised
    /\ UNCHANGED <<suiteVars, statsVars, cacheVars, reportVars, metricsVars, scaleVars, sessionVars,
                   baseline_file, current_results, upc, check_return>>

\* check(current_results), before update_baseline or after it has returned
Check ==
    /\ dpc = "ready"
    /\ upc \in {"idle", "done"}
    /\ check_return = <<>>
    /\ check_return' = <<check(baseline, current_results)>>
    /\ UNCHANGED <<suiteVars, statsVars, cacheVars, reportVars, metricsVars, scaleVars, sessionVars,
                   baseline_file, baseline, current_results, dpc, upc>>

\* update_baseline(current_results) up to open(self.baseline_path, 'w'),
\* which creates the file or empties it
OpenBaseline ==
    /\ dpc = "ready"
    /\ upc = "idle"
    /\ check_return = <<>>
    /\ baseline_file' = File(NoJson(""))
    /\ upc' = "open"
    /\ UNCHANGED <<suiteVars, statsVars, cacheVars, reportVars, metricsVars, scaleVars, sessionVars,
                   baseline, current_results, dpc, check_return>>

\* json.dump(baseline_data, f, indent=2) and the end of update_baseline
DumpBaseline ==
    /\ upc = "open"
    /\ baseline_file' = File(Json(baseline_data(current_results)))
    /\ upc' = "done"
    /\ UNCHANGED <<suiteVars, statsVars, cacheVars, reportVars, metricsVars, scaleVars, sessionVars,
                   baseline, current_results, dpc, check_return>>

\* json.dump ended by an exception (an interrupt, a full disk): the file
\* is closed with what had been written
DumpFails ==
    /\ upc = "open"
    /\ \E text \in PartialTexts : baseline_file' = File(NoJson(text))
    /\ upc' = "failed"
    /\ UNCHANGED <<suiteVars, statsVars, cacheVars, reportVars, metricsVars, scaleVars, sessionVars,
                   baseline, current_results, dpc, check_return>>

NextDetector ==
    \/ NewDetector
    \/ Check
    \/ OpenBaseline
    \/ DumpBaseline
    \/ DumpFails

SpecDetector == InitDetector /\ [][NextDetector]_vars

\* a baseline document of the shape update_baseline writes
HasBaselineShape(x) ==
    /\ x.t = "dict"
    /\ "results" \in DOMAIN x.d
    /\ x.d["results"].t = "list"
    /\ \A i \in DOMAIN x.d["results"].items :
         LET item == x.d["results"].items[i]
         IN /\ item.t = "dict"
            /\ {"workload_id", "latency_avg_ms", "index_size_mb", "build_time_ms"}
                   \subseteq DOMAIN item.d
            /\ item.d["workload_id"].t = "str"
            /\ \A k \in {"latency_avg_ms", "index_size_mb", "build_time_ms"} :
                   item.d[k].t = "num"

\* update_baseline has returned and check has been called after it
CheckedAfterUpdate == upc = "done" /\ check_return # <<>>

\* C16: whatever baseline the detector loaded when it was constructed,
\* update_baseline(R) followed by check(R) on the same detector returns no
\* regression.
C16_NoRegressionAgainstOwnBaseline ==
    (CheckedAfterUpdate /\ (baseline = JNull \/ HasBaselineShape(baseline))) =>
        check_return[1] = Ok(<<>>)

\* the workloads of the loaded baseline
BaselineIds ==
    {baseline.d["results"].items[i].d["workload_id"].str :
        i \in DOMAIN baseline.d["results"].items}

\* the loaded baseline's record of a workload
BaselineRecord(workload_id) ==
    LET items == baseline.d["results"].items
        first == CHOOSE i \in DOMAIN items :
                    /\ items[i].d["workload_id"].str = workload_id
                    /\ \A j \in 1..(i - 1) : items[j].d["workload_id"].str # workload_id
    IN items[first].d

SmolIds(rs) == {rs[i].workload_id : i \in {j \in DOMAIN rs : rs[j].engine = "smol"}}

SmolResults(rs, workload_id) ==
    SelectSeq(rs, LAMBDA r : r.workload_id = workload_id /\ r.engine = "smol")

IsFlagged(workload_id, metric) ==
    \E i \in DOMAIN check_return[1].value :
        /\ check_return[1].value[i].workload = workload_id
        /\ check_return[1].value[i].metric = metric

\* C17: check flags the pooled mean latency, and the index size, of a smol
\* workload exactly when the current value is strictly greater than 115% of
\* the baseline's value: a value 15% above the baseline is not flagged.
C17_StrictThreshold ==
    (check_return # <<>> /\ check_return[1].raised = "" /\ HasBaselineShape(baseline)) =>
        \A w \in SmolIds(current_results) \cap BaselineIds :
            LET rs == SmolResults(current_results, w)
            IN /\ IsFlagged(w, "latency_avg_ms") <=>
                     100 * sum(Latencies(rs)) >
                         115 * BaselineRecord(w)["latency_avg_ms"].n * Len(rs)
               /\ IsFlagged(w, "index_size_mb") <=>
                     100 * rs[1].index_size_mb > 115 * BaselineRecord(w)["index_size_mb"].n

\* the workloads of the entries of a written baseline, in order
EntryIds(x) ==
    [i \in DOMAIN x.d["results"].items |-> x.d["results"].items[i].d["workload_id"].str]

\* C18: when update_baseline(R) has returned, the baseline file holds
\* exactly one entry for each workload that has a smol result in R and no
\* other entry, whatever it held before.
C18_FullReplacement ==
    upc = "done" =>
        /\ baseline_file.exists /\ baseline_file.decodes /\ baseline_file.doc.json
        /\ HasBaselineShape(baseline_file.doc.value)
        /\ DOMAIN baseline_file.doc.value.d = {"results"}
        /\ LET ids == EntryIds(baseline_file.doc.value)
           IN /\ {ids[i] : i \in DOMAIN ids} = SmolIds(current_results)
              /\ \A i, j \in DOMAIN ids : ids[i] = ids[j] => i = j

C18_Witness ==
    /\ upc = "done"
    /\ HasBaselineShape(baseline)
    /\ "w1" \in BaselineIds
    /\ SmolIds(current_results) = {"w2"}
    /\ \E i \in DOMAIN current_results :
          current_results[i].workload_id = "w1" /\ current_results[i].engine = "btree"

\* C19: the baseline file is replaced in one step: it always holds either
\* what it held before or the complete new baseline.
C19_AtomicWrite ==
    [][\/ baseline_file' = baseline_file
       \/ baseline_file' = File(Json(baseline_data(current_results)))]_vars

\* the file is absent or is no baseline document
NoBaselineDocument(file) ==
    \/ ~file.exists
    \/ ~file.decodes
    \/ ~file.doc.json
    \/ ~HasBaselineShape(file.doc.value)

\* C20: with a baseline file that is missing or is not a document of the
\* expected shape, the constructor does not raise and check returns the
\* empty list, without raising, for every result set.
C20_PermissiveLoad ==
    (upc = "idle" /\ NoBaselineDocument(baseline_file)) =>
        /\ dpc \in {"new", "ready"}
        /\ check_return # <<>> => check_return[1] = Ok(<<>>)

SmolOnly(rs) == SelectSeq(rs, LAMBDA r : r.engine = "smol")

\* the loaded baseline has an entry for the workload
HasEntry(workload_id) ==
    /\ baseline.t = "dict"
    /\ "results" \in DOMAIN baseline.d
    /\ baseline.d["results"].t = "list"
    /\ \E i \in DOMAIN baseline.d["results"].items :
         LET item == baseline.d["results"].items[i]
         IN /\ item.t = "dict"
            /\ "workload_id" \in DOMAIN item.d
            /\ item.d["workload_id"] = JStr(workload_id)

\* C21: what check(results) ends with is what it ends with for the smol
\* results alone, so btree results never change it; every workload it
\* reports has a smol result and a baseline entry, and is reported at most
\* once for each metric.
C21_OnlySmolAndBaseline ==
    check_return # <<>> =>
        /\ check_return[1] = check(baseline, SmolOnly(current_results))
        /\ check_return[1].raised = "" =>
             LET regressions == check_return[1].value
             IN /\ \A i \in DOMAIN regressions :
                     /\ regressions[i].workload \in SmolIds(current_results)
                     /\ HasEntry(regressions[i].workload)
                     /\ regressions[i].metric \in {"latency_avg_ms", "index_size_mb"}
                /\ \A i, j \in DOMAIN regressions :
                     (/\ regressions[i].workload = regressions[j].workload
                      /\ regressions[i].metric = regressions[j].metric) => i = j

C21_Witness ==
    /\ check_return # <<>>
    /\ check_return[1].raised = ""
    /\ check_return[1].value # <<>>
    /\ \E i \in DOMAIN current_results :
         /\ current_results[i].engine = "btree"
         /\ current_results[i].latency_avg_ms = 116
         /\ HasEntry(current_results[i].workload_id)

\* C30: with a loaded baseline whose entries hold non-negative numbers,
\* check returns a list without raising; a baseline latency or index size
\* of 0 with a positive current value is reported as a regression.
C30_ZeroBaselineReported ==
    (check_return # <<>> /\ HasBaselineShape(baseline)) =>
        /\ check_return[1].raised = ""
        /\ \A w \in SmolIds(current_results) \cap BaselineIds :
             /\ BaselineRecord(w)["latency_avg_ms"].n = 0 => IsFlagged(w, "latency_avg_ms")
             /\ BaselineRecord(w)["index_size_mb"].n = 0 => IsFlagged(w, "index_size_mb")

----------------------------------------------------------------------------
(* ReportGenerator *)

\* the longest result set that is reported
MaxReported == 3

\* the results that are reported: <<latency_p50_ms, index_size_mb>>
ReportSamples == <<<<0, 1>>, <<2, 4>>, <<1, 1>>>>

Reported(workload_id, engine, query_id, sample) ==
    [workload_id |-> workload_id, engine |-> engine,
     query_id |-> query_id, cache_mode |-> "hot",
     latency_p50_ms |-> sample[1], index_size_mb |-> sample[2]]

ReportedResults ==
    {Reported("w1", engine, query_id, ReportSamples[i]) :
        engine \in {"btree", "smol"}, query_id \in {"q1", "q2"}, i \in DOMAIN ReportSamples}
    \cup {Reported("w2", engine, "q1", ReportSamples[2]) : engine \in {"btree", "smol"}}

ReportSets == UNION {[1..n -> ReportedResults] : n \in 0..MaxReported}

\* the workloads, and the <<query_id, cache_mode>> of the keys
\* f"{r.query_id}_{r.cache_mode}", in the order sorted() gives them
SortedWorkloads == <<"w1", "w2">>
SortedKeys == <<<<"q1", "hot">>, <<"q2", "hot">>>>

\* a / b if b > 0 else 0, as the fraction <<numerator, denominator>>
Ratio(a, b) == IF b > 0 THEN <<a, b>> ELSE <<0, 1>>

\* by_query_cache[key][engine] of a workload: the last result stored under it
Engines_Of(rs, workload_id, key, engine) ==
    LET hits == SelectSeq(rs, LAMBDA r : /\ r.workload_id = workload_id
                                         /\ r.query_id = key[1]
                                         /\ r.cache_mode = key[2]
                                         /\ r.engine = engine)
    IN IF hits = <<>> THEN <<>> ELSE <<hits[Len(hits)]>>

\* generate_markdown: the "Query" blocks it writes, in order
generate_markdown(rs) ==
    LET slots == [i \in 1..(Len(SortedWorkloads) * Len(SortedKeys)) |->
                    [workload_id |-> SortedWorkloads[((i - 1) \div Len(SortedKeys)) + 1],
                     key |-> SortedKeys[((i - 1) % Len(SortedKeys)) + 1]]]
        Pair(x) == [btree |-> Engines_Of(rs, x.workload_id, x.key, "btree"),
                    smol |-> Engines_Of(rs, x.workload_id, x.key, "smol")]
        paired == SelectSeq(slots, LAMBDA x : Pair(x).btree # <<>> /\ Pair(x).smol # <<>>)
    IN Ok([i \in DOMAIN paired |->
             LET btree == Pair(paired[i]).btree[1]
                 smol == Pair(paired[i]).smol[1]
             IN [workload_id |-> paired[i].workload_id,
                 query_id |-> btree.query_id,
                 cache_mode |-> btree.cache_mode,
                 btree |-> btree,
                 smol |-> smol,
                 speedup |-> Ratio(btree.latency_p50_ms, smol.latency_p50_ms),
                 compression |-> Ratio(btree.index_size_mb, smol.index_size_mb)]])

\* the if / elif chain of generate_decision_tree for the p50 latencies b, s
\* and the index sizes bs, ss of btree and smol
Recommend(b, s, bs, ss) ==
    LET speedupOver15 == s > 0 /\ 2 * b > 3 * s
        speedupOver12 == s > 0 /\ 5 * b > 6 * s
        speedupUnder09 == s <= 0 \/ 10 * b < 9 * s
        compressionOver2 == ss > 0 /\ bs > 2 * ss
        compressionOver3 == ss > 0 /\ bs > 3 * ss
    IN IF speedupOver15 /\ compressionOver2 THEN Ok("STRONGLY RECOMMEND SMOL")
       ELSE IF speedupOver12 THEN Ok("RECOMMEND SMOL")
       ELSE IF compressionOver3 THEN Ok("RECOMMEND SMOL (size)")
       ELSE IF speedupUnder09
       THEN IF s <= 0 \/ b = 0 THEN Raise("ZeroDivisionError") ELSE Ok("USE BTREE")
       ELSE Ok("NEUTRAL (tie)")

\* the loop of generate_decision_tree over the workloads from position i on
RECURSIVE TreeFrom(_, _, _)
TreeFrom(rs, i, lines) ==
    IF i > Len(SortedWorkloads) THEN Ok(lines)
    ELSE LET btree == First(rs, SortedWorkloads[i], "btree")
             smol == First(rs, SortedWorkloads[i], "smol")
         IN IF btree = <<>> \/ smol = <<>> THEN TreeFrom(rs, i + 1, lines)
            ELSE LET rec == Recommend(btree[1].latency_p50_ms, smol[1].latency_p50_ms,
                                      btree[1].index_size_mb, smol[1].index_size_mb)
                 IN IF rec.raised # "" THEN rec
                    ELSE TreeFrom(rs, i + 1,
                            Append(lines, [workload_id |-> SortedWorkloads[i],
                                           rec |-> rec.value,
                                           btree |-> btree[1],
                                           smol |-> smol[1]]))

\* generate_decision_tree: the recommendations it writes, in order
generate_decision_tree(rs) == TreeFrom(rs, 1, <<>>)

InitReport ==
    /\ Environment(QuickRuns)
    /\ SuiteStart
    /\ StatsIdle
    /\ CacheIdle
    /\ DetectorIdle
    /\ MetricsIdle
    /\ ScaleIdle
    /\ SessionIdle
    /\ report_results \in ReportSets
    /\ markdown_return = <<>>
    /\ tree_return = <<>>

GenerateMarkdown ==
    /\ markdown_return = <<>>
    /\ markdown_return' = <<generate_markdown(report_results)>>
    /\ UNCHANGED <<suiteVars, statsVars, cacheVars, detectorVars, metricsVars, scaleVars, sessionVars, report_results, tree_return>>

GenerateDecisionTree ==
    /\ tree_return = <<>>
    /\ tree_return' = <<generate_decision_tree(report_results)>>
    /\ UNCHANGED <<suiteVars, statsVars, cacheVars, detectorVars, metricsVars, scaleVars, sessionVars, report_results, markdown_return>>

NextReport == GenerateMarkdown \/ GenerateDecisionTree

SpecReport == InitReport /\ [][NextReport]_vars

\* the (workload_id, query_id, cache_mode) of a result
TupleOf(r) == <<r.workload_id, r.query_id, r.cache_mode>>

\* the tuples that have a result of the engine
TuplesOf(rs, engine) == {TupleOf(rs[i]) : i \in {j \in DOMAIN rs : rs[j].engine = engine}}

PairedTuples(rs) == TuplesOf(rs, "btree") \cap TuplesOf(rs, "smol")

\* a recommendation whose reason states a speedup or a compression ratio
StatesRatio(line) == line.rec # "NEUTRAL (tie)"

\* C22: for a result set with positive latencies in which some tuple has a
\* result of one engine only, the markdown report and the decision tree are
\* generated without raising, ratios are written for exactly the tuples that
\* have both engines, and no ratio is computed from a result of a tuple
\* that has one engine only.
C22_RatiosOnlyForPairs ==
    (/\ markdown_return # <<>>
     /\ tree_return # <<>>
     /\ \A i \in DOMAIN report_results : report_results[i].latency_p50_ms > 0) =>
        /\ markdown_return[1].raised = ""
        /\ tree_return[1].raised = ""
        /\ {<<x.workload_id, x.query_id, x.cache_mode>> :
               x \in {markdown_return[1].value[i] : i \in DOMAIN markdown_return[1].value}}
             = PairedTuples(report_results)
        /\ \A i \in DOMAIN tree_return[1].value :
             LET line == tree_return[1].value[i]
             IN StatesRatio(line) =>
                   /\ TupleOf(line.btree) \in PairedTuples(report_results)
                   /\ TupleOf(line.smol) \in PairedTuples(report_results)

\* C29: generate_decision_tree returns its text without raising for every
\* result set with non-negative latencies and sizes, a p50 latency of 0
\* included.
C29_TreeNeverRaises ==
    tree_return # <<>> => tree_return[1].raised = ""

----------------------------------------------------------------------------
(* calculate_percentiles on the latencies execute_with_stats measures, which *)
(* are doubles                                                              *)

\* the longest list of samples that is examined
MaxSamples == 3

\* the samples that are examined, in tenths of a millisecond
Tenths == {1, 2, 3, 7}

\* the value of the digits 15 * j + 1 .. 15 * j + 15 of a
Chunk(a, j) == sum([i \in 1..15 |-> Digit(a, 15 * j + i) * 2^(i - 1)])

\* the digits of a from digit 15 * j + 1 on, divided by n, 0 < n < 2^15:
\* the quotient and the remainder
RECURSIVE DivFrom(_, _, _)
DivFrom(a, n, j) ==
    IF 15 * j >= Len(a) THEN [q |-> <<>>, r |-> 0]
    ELSE LET hi == DivFrom(a, n, j + 1)
             num == hi.r * 2^15 + Chunk(a, j)
         IN [q |-> Add(Bits(num \div n), Shl(hi.q, 15)), r |-> num % n]

\* u / n
fdiv(u, n) ==
    LET d == DivFrom(Shl(u.m, 60), n, 0)
    IN Round53(d.q, d.r # 0, u.e - 60)

\* u <= v
le(u, v) == ~gt(u, v)

RECURSIVE insort(_, _)
insort(x, s) ==
    IF s = <<>> THEN <<x>>
    ELSE IF le(x, Head(s)) THEN <<x>> \o s
    ELSE <<Head(s)>> \o insort(x, Tail(s))

\* sorted(values) of doubles
RECURSIVE sorted_vals(_)
sorted_vals(s) == IF s = <<>> THEN <<>> ELSE insort(Head(s), sorted_vals(Tail(s)))

\* sum(values) of the first i doubles, added from the left to the int 0
RECURSIVE fsum(_, _)
fsum(s, i) == IF i = 0 THEN float(0) ELSE add(fsum(s, i - 1), s[i])

\* calculate_percentiles of a list of doubles
percentiles(samples) ==
    IF samples = <<>>
    THEN [p50 |-> float(0), p95 |-> float(0), p99 |-> float(0),
          avg |-> float(0), min |-> float(0), max |-> float(0)]
    ELSE LET sv == sorted_vals(samples)
             n == Len(sv)
         IN [p50 |-> At(sv, n, 50),
             p95 |-> IF n > 1 THEN At(sv, n, 95) ELSE sv[n],
             p99 |-> IF n > 2 THEN At(sv, n, 99) ELSE sv[n],
             avg |-> fdiv(fsum(samples, n), n),
             min |-> sv[1],
             max |-> sv[n]]

InitMetrics ==
    /\ Environment(QuickRuns)
    /\ SuiteStart
    /\ StatsIdle
    /\ CacheIdle
    /\ DetectorIdle
    /\ ReportIdle
    /\ ScaleIdle
    /\ SessionIdle
    /\ latency_samples \in UNION {[1..n -> {truediv(k, 10) : k \in Tenths}] : n \in 1..MaxSamples}
    /\ percentiles_return = <<>>

CalculatePercentiles ==
    /\ percentiles_return = <<>>
    /\ percentiles_return' = <<percentiles(latency_samples)>>
    /\ UNCHANGED <<suiteVars, statsVars, cacheVars, detectorVars, reportVars, scaleVars, sessionVars,
                   latency_samples>>

SpecMetrics == InitMetrics /\ [][CalculatePercentiles]_vars

\* C23: for every non-empty list of samples, p50 <= p95 <= p99 <= max and
\* min <= avg <= max, and each percentile is the element of the sorted list
\* at index floor(n * q), an index that is at most n - 1.
C23_PercentilesOrdered ==
    percentiles_return # <<>> =>
        LET p == percentiles_return[1]
            sv == sorted_vals(latency_samples)
            n == Len(sv)
        IN /\ le(p.p50, p.p95) /\ le(p.p95, p.p99) /\ le(p.p99, p.max)
           /\ le(p.min, p.avg) /\ le(p.avg, p.max)
           /\ \A q \in {<<"p50", 50>>, <<"p95", 95>>, <<"p99", 99>>} :
                 /\ (n * q[2]) \div 100 <= n - 1
                 /\ p[q[1]] = sv[((n * q[2]) \div 100) + 1]

----------------------------------------------------------------------------
(* The query sets of the two engines in one run of a workload *)

\* the engine loop of run() reaches the queries of smol: build_index and
\* get_index_size have succeeded and get_queries() is evaluated again,
\* while queries still holds the list the btree queries were taken from
SmolQueriesStart ==
    /\ InRun("build")
    /\ Engines[eng] = "smol"
    /\ faults' = faults

\* C26: within one run of a workload the query set executed for smol is the
\* one executed for btree: the same query ids in the same order, with the
\* same SQL text and the same repeat count for each id.
C26_SameQueriesBothEngines ==
    [][SmolQueriesStart => queries' = queries]_vars

----------------------------------------------------------------------------
(* PostgresEnvironment.get_test_scale and get_scale_params *)

\* the most calls that are examined
MaxCalls == 3

\* the cache sizes (MB) that __init__ captures in the environments examined
CacheSizesMB == {64, 128, 255, 256, 257, 2047, 2048, 16384}

InitScale ==
    /\ mode = "full"
    /\ shared_buffers_mb \in CacheSizesMB
    /\ max_workers = 2
    /\ dbExecTime = 1
    /\ dbIndexMB = [btree |-> 4, smol |-> 1]
    /\ has_buffercache = TRUE
    /\ SuiteStart
    /\ StatsIdle
    /\ CacheIdle
    /\ DetectorIdle
    /\ ReportIdle
    /\ MetricsIdle
    /\ SessionIdle
    /\ scale_calls = <<>>

GetTestScale ==
    /\ Len(scale_calls) < MaxCalls
    /\ scale_calls' = Append(scale_calls,
          [fn |-> "get_test_scale", value |-> get_test_scale(shared_buffers_mb)])
    /\ UNCHANGED <<suiteVars, statsVars, cacheVars, detectorVars, reportVars, metricsVars,
                   sessionVars>>

GetScaleParams ==
    /\ Len(scale_calls) < MaxCalls
    /\ scale_calls' = Append(scale_calls,
          [fn |-> "get_scale_params", value |-> get_scale_params(shared_buffers_mb)])
    /\ UNCHANGED <<suiteVars, statsVars, cacheVars, detectorVars, reportVars, metricsVars,
                   sessionVars>>

NextScale == GetTestScale \/ GetScaleParams

SpecScale == InitScale /\ [][NextScale]_vars

\* the tier the thresholds of 256 MB and 2048 MB give
TierOf(mb) == IF mb < 256 THEN "micro" ELSE IF mb < 2048 THEN "standard" ELSE "large"

\* the row counts, the cache modes and the timeout of params are at least
\* those of smaller
NotLess(params, smaller) ==
    /\ Len(params.rows) >= Len(smaller.rows)
    /\ \A i \in DOMAIN smaller.rows : params.rows[i] >= smaller.rows[i]
    /\ {smaller.cache_modes[i] : i \in DOMAIN smaller.cache_modes}
         \subseteq {params.cache_modes[i] : i \in DOMAIN params.cache_modes}
    /\ params.timeout_minutes >= smaller.timeout_minutes

\* C24: the tier is a function of the cache size captured at construction
\* (below 256 MB micro, from 256 MB to below 2048 MB standard, from 2048 MB
\* large); get_test_scale and get_scale_params send nothing to the database
\* and return the same value at every call of a run; and the row counts,
\* cache modes and timeout selected never decrease when the cache size grows.
C24_ScaleFromCacheSize ==
    /\ log = <<>>
    /\ \A i \in DOMAIN scale_calls :
         LET call == scale_calls[i]
         IN /\ call.fn = "get_test_scale" => call.value = TierOf(shared_buffers_mb)
            /\ call.fn = "get_scale_params" =>
                 /\ call.value = scale_configs[TierOf(shared_buffers_mb)]
                 /\ \A mb \in CacheSizesMB :
                      mb >= shared_buffers_mb => NotLess(get_scale_params(mb), call.value)
            /\ \A j \in DOMAIN scale_calls :
                 scale_calls[j].fn = call.fn => scale_calls[j].value = call.value

C24_Witness ==
    /\ shared_buffers_mb = 256
    /\ Len(scale_calls) = MaxCalls
    /\ scale_calls[1].fn = "get_scale_params"
    /\ scale_calls[2].fn = "get_test_scale"
    /\ scale_calls[3].fn = "get_scale_params"

----------------------------------------------------------------------------
(* WorkloadBase.build_index, called in any state of the workload's indexes *)

\* the indexes the table of workload c can have: those build_index names
\* and the one of its primary key
IndexesOf(c) ==
    {Index(idx_name(c, engine), get_actual_table_name(c), engine) : engine \in {"btree", "smol"}}
    \cup (IF HasPrimaryKey(c)
          THEN {Index(get_actual_table_name(c) \o "_pkey", get_actual_table_name(c), "btree")}
          ELSE {})

InitIndex ==
    /\ Environment(QuickRuns)
    /\ LibIdle
    /\ faults = 0
    /\ rpc = "loop"
    /\ idx \in DOMAIN Workloads
    /\ results = <<>>
    /\ outcome = <<>>
    /\ reports = "none"
    /\ regression = "none"
    /\ wpc = "build"
    /\ eng = 1
    /\ queries = <<>>
    /\ qi = 1
    /\ mi = 1
    /\ index_size = 0
    /\ wresults = <<>>
    /\ log = <<>>
    /\ tables = {get_actual_table_name(cur)}
    /\ indexes \in SUBSET IndexesOf(cur)
    /\ extensions = {"smol"}

\* build_index(engine): DROP INDEX IF EXISTS, then the timed CREATE INDEX,
\* which succeeds or fails
BuildIndexCall ==
    /\ Len(log) < MaxCalls
    /\ \E engine \in {"btree", "smol"} :
        LET dropped == DropIndex(DB, idx_name(cur, engine))
        IN \/ /\ LET db == CreateIndex(dropped, cur, engine)
                 IN tables' = db.tables /\ indexes' = db.indexes
              /\ log' = Append(log, Ev("build_index", engine, "", ""))
              /\ faults' = faults
           \/ /\ MayFail
              /\ tables' = dropped.tables /\ indexes' = dropped.indexes
              /\ \E kind \in FaultKinds :
                   log' = Append(log, Failed(Ev("build_index", engine, "", ""), kind))
              /\ faults' = faults + 1
    /\ UNCHANGED <<envVars, libVars, rpc, idx, results, outcome, reports, regression,
                   wpc, loopVars, wresults, extensions>>

SpecIndex == InitIndex /\ [][BuildIndexCall]_vars

\* a call of build_index has returned in this step
BuildIndexReturned ==
    /\ Len(log') = Len(log) + 1
    /\ log'[Len(log')].ev = "build_index"
    /\ log'[Len(log')].fault = ""

\* C25: a call of build_index(engine) that returns, whether the index was
\* there or not and however often it is called, leaves exactly one index
\* with the name made of the table and the engine, of that engine and on that
\* table, and leaves the table and every other index as they were.
C25_BuildIndexExact ==
    [][BuildIndexReturned =>
          LET engine == log'[Len(log')].engine
              name == idx_name(cur, engine)
          IN /\ {i \in indexes' : i.name = name}
                  = {Index(name, get_actual_table_name(cur), engine)}
             /\ {i \in indexes' : i.name # name} = {i \in indexes : i.name # name}
             /\ tables' = tables]_vars

\* build_index has been called twice for one engine and once for the other,
\* and the three calls have returned
C25_Witness ==
    /\ Len(log) = 3
    /\ \A i \in 1..3 : log[i].ev = "build_index" /\ log[i].fault = ""
    /\ log[1].engine = "smol" /\ log[2].engine = "smol" /\ log[3].engine = "btree"
    /\ \A engine \in {"btree", "smol"} :
         Index(idx_name(cur, engine), get_actual_table_name(cur), engine) \in indexes

----------------------------------------------------------------------------
(* The indexes on the table while an engine's queries run *)

\* the engine that is not the given one
OtherEngine(engine) == IF engine = "btree" THEN "smol" ELSE "btree"

\* C27: whenever a warm-up or measured query is about to be executed for an
\* engine, the index built for that engine is on the workload's table and
\* no index the harness built for the other engine is on it.
C27_OnlyOwnIndexWhileQuerying ==
    InRun("query") =>
        LET engine == Engines[eng]
            table == get_actual_table_name(cur)
        IN /\ Index(idx_name(cur, engine), table, engine) \in indexes
           /\ Index(idx_name(cur, OtherEngine(engine)), table, OtherEngine(engine))
                 \notin indexes

----------------------------------------------------------------------------
(* The client processes of execute_query.  DatabaseConnection.execute runs  *)
(* psql once per call: the statement is executed in a session of its own,   *)
(* which starts with the settings of the server and ends with the process.  *)

\* the planner settings a session starts with: those of a server as
\* installed, with the parallelism PostgresEnvironment has read from it
ServerSettings ==
    [enable_seqscan |-> "on", enable_bitmapscan |-> "on", enable_indexonlyscan |-> "on",
     max_parallel_workers_per_gather |-> max_workers]

\* the SET statements at the start of execute_query, <<name, value>>
PlannerSettings(c) ==
    <<<<"enable_seqscan", "off">>,
      <<"enable_bitmapscan", "off">>,
      <<"enable_indexonlyscan", "on">>,
      <<"max_parallel_workers_per_gather", c.parallelism>>>>

\* SET name = value in a session
Set(settings, name, value) == [settings EXCEPT ![name] = value]

\* the execute() calls of execute_query, in order
Executes(query, engine, cache_mode, buffercache) ==
    SelectSeq(QueryCalls(query, engine, cache_mode, buffercache), CanFail)

InitSession ==
    /\ Environment(QuickRuns)
    /\ StatsIdle
    /\ CacheIdle
    /\ DetectorIdle
    /\ ReportIdle
    /\ MetricsIdle
    /\ ScaleIdle
    /\ faults = 0
    /\ rpc = "loop"
    /\ idx \in DOMAIN Workloads
    /\ results = <<>>
    /\ outcome = <<>>
    /\ reports = "none"
    /\ regression = "none"
    /\ wpc = "query"
    /\ eng \in DOMAIN Engines
    /\ \E random_id \in RandomIds(cur) : queries = get_queries(cur, random_id)
    /\ qi \in DOMAIN queries
    /\ mi \in DOMAIN cur.cache_modes
    /\ index_size = dbIndexMB[Engines[eng]]
    /\ wresults = <<>>
    /\ log = <<>>
    /\ tables = {get_actual_table_name(cur)}
    /\ indexes = {Index(idx_name(cur, Engines[e]), get_actual_table_name(cur), Engines[e]) :
                     e \in 1..eng}
    /\ extensions = {"smol"}
    /\ exec_pos = 0
    /\ sessions = <<>>

\* the next execute() call of execute_query: a psql process starts, runs
\* the statement in its session and exits
Execute ==
    LET calls == Executes(queries[qi], Engines[eng], cur.cache_modes[mi], has_buffercache)
    IN /\ exec_pos < Len(calls)
       /\ LET started == ServerSettings
              ran == IF calls[exec_pos + 1].e.ev = "set"
                     THEN Set(started, PlannerSettings(cur)[exec_pos + 1][1],
                              PlannerSettings(cur)[exec_pos + 1][2])
                     ELSE started
          IN sessions' = Append(sessions, [ev |-> calls[exec_pos + 1].e.ev, settings |-> ran])
       /\ exec_pos' = exec_pos + 1
       /\ UNCHANGED <<suiteVars, statsVars, cacheVars, detectorVars, reportVars, metricsVars,
                      scaleVars>>

SpecSession == InitSession /\ [][Execute]_vars

\* C28: the planner settings issued at the start of execute_query (seqscan
\* off, bitmapscan off, indexonlyscan on, parallel workers as configured)
\* are in effect in the session that executes each warm-up and each
\* measured query of the call.
C28_SettingsInEffect ==
    \A i \in DOMAIN sessions :
        sessions[i].ev \in {"warmup", "measured"} =>
            sessions[i].settings =
                [enable_seqscan |-> "off", enable_bitmapscan |-> "off",
                 enable_indexonlyscan |-> "on",
                 max_parallel_workers_per_gather |-> cur.parallelism]

====
